---- MODULE Spec2Model ----
(***************************************************************************)
(* Tenant synchronisation of ucctl: the two implementations of the sync    *)
(* command (cmd/ucctl/sync/tenant.go and cmd/ucctl/synctenant) run against *)
(* a source and a destination AuthZ store.                                 *)
(*                                                                         *)
(* The AuthZ client (userclouds.com/authz) is not part of the sources      *)
(* modelled here; its List, Create and Delete calls and the entities'      *)
(* EqualsIgnoringID follow the design document: a call either fails and    *)
(* changes nothing, or performs its single remote mutation.                *)
(***************************************************************************)
EXTENDS Integers, Sequences, FiniteSets, TLC

VARIABLES
    cfgFile,      \* the ucctl configuration file (~/.userclouds/config.yaml)
    args,         \* the command's fields as the flags of the invocation set them
    environ,      \* the environment every invocation starts with
    cmd,          \* c: the command's fields
    env,          \* the environment of the running process
    clients,      \* the tenants a client was created for
    validated,    \* c.validate() returned nil
    variant,      \* "sync" (cmd/ucctl/sync/tenant.go) or "synctenant" (cmd/ucctl/synctenant)
    dryRun,       \* c.DryRun
    insertOnly,   \* c.InsertOnly
    verbose,      \* c.Verbose
    srcStore,     \* the source tenant's AuthZ store
    dstStore,     \* the destination tenant's AuthZ store
    dstStore0,    \* the destination store as it was when the first run started
    srcResources, \* snapshot fetched from the source
    dstResources, \* snapshot fetched from the destination
    deleteResources, \* deletion change-set
    insertResources, \* insertion change-set
    pc,           \* position of the sync function
    step,         \* index of the kind being fetched / applied
    idx,          \* index of the entity being applied within its kind
    cursor,       \* pagination cursor of the running fetch loop
    acc,          \* local accumulator of the running fetch loop
    calls,        \* every remote call issued so far, in order
    diffs,        \* every diff computed so far, in order
    run,          \* number of the current invocation
    writes,       \* number of changes another writer made to the destination
    conf,         \* the configuration the context commands load and save (config.Config)
    lastOp,       \* the last operation on the configuration and its outcome
    secrets,      \* c.secrets: the package cache of resolved secrets, by location
    now,          \* time.Now()
    backend,      \* the secrets the providers hold, by provider and path
    out,          \* the last operation on a secret and its outcome
    held,         \* c.secretsMutex: the goroutines holding it for reading, and the one holding it for writing
    gor,          \* the call into the cache each goroutine is running, and its position
    conv          \* a secret path and, once converted, its Kubernetes secret name

\* the variables of the sync command
syncVars == <<cfgFile, args, environ, cmd, env, clients, validated,
          variant, dryRun, insertOnly, verbose, srcStore, dstStore, dstStore0,
          srcResources, dstResources, deleteResources, insertResources,
          pc, step, idx, cursor, acc, calls, diffs, run, writes>>

\* the variables of the context commands
contextVars == <<conf, lastOp>>

\* the variables of the secret package
secretVars == <<secrets, now, backend, out, held, gor, conv>>

vars == <<syncVars, contextVars, secretVars>>

----------------------------------------------------------------------------
(* Bounds *)

\* number of entities a List page carries
PageSize == 1
\* number of consecutive invocations of the command
MaxRuns == 2
\* the last instant of the clock
MaxTime == 3
\* the longest secret path
MaxLen == 3
\* number of changes another writer makes to the destination
MaxWrites == 1

----------------------------------------------------------------------------
(* Resource model *)

Kinds == {"objectTypes", "objects", "edgeTypes", "edges"}

NewResources ==
    [objectTypes |-> <<>>, objects |-> <<>>, edgeTypes |-> <<>>, edges |-> <<>>]

ObjectType(id, name) == [ID |-> id, TypeName |-> name]

\* Alias is a *string: <<>> is nil, <<s>> points to s
Object(id, typeID, alias) == [ID |-> id, TypeID |-> typeID, Alias |-> alias]

EdgeType(id, name, srcType, tgtType, attrs) ==
    [ID |-> id, TypeName |-> name, SourceObjectTypeID |-> srcType,
     TargetObjectTypeID |-> tgtType, Attributes |-> attrs]

Edge(id, edgeTypeID, srcObj, tgtObj) ==
    [ID |-> id, EdgeTypeID |-> edgeTypeID, SourceObjectID |-> srcObj,
     TargetObjectID |-> tgtObj]

Range(s) == {s[i] : i \in DOMAIN s}

IDs(list) == {list[i].ID : i \in DOMAIN list}

Min(a, b) == IF a < b THEN a ELSE b

\* content equality of two entities of kind k, identifiers left aside
EqualsIgnoringID(k, a, b) ==
    IF k = "objectTypes" THEN a.TypeName = b.TypeName
    ELSE IF k = "objects" THEN a.TypeID = b.TypeID /\ a.Alias = b.Alias
    ELSE IF k = "edgeTypes" THEN
        /\ a.TypeName = b.TypeName
        /\ a.SourceObjectTypeID = b.SourceObjectTypeID
        /\ a.TargetObjectTypeID = b.TargetObjectTypeID
        /\ Range(a.Attributes) = Range(b.Attributes)
    ELSE
        /\ a.EdgeTypeID = b.EdgeTypeID
        /\ a.SourceObjectID = b.SourceObjectID
        /\ a.TargetObjectID = b.TargetObjectID

\* the store's invariants: references name existing entities of the right type
Consistent(s) ==
    /\ \A i, j \in DOMAIN s.objectTypes : s.objectTypes[i].ID = s.objectTypes[j].ID => i = j
    /\ \A i, j \in DOMAIN s.objects : s.objects[i].ID = s.objects[j].ID => i = j
    /\ \A o \in Range(s.objects) : o.TypeID \in IDs(s.objectTypes)
    /\ \A et \in Range(s.edgeTypes) :
          /\ et.SourceObjectTypeID \in IDs(s.objectTypes)
          /\ et.TargetObjectTypeID \in IDs(s.objectTypes)
    /\ \A e \in Range(s.edges) :
          /\ \E et \in Range(s.edgeTypes) :
                /\ et.ID = e.EdgeTypeID
                /\ \E so \in Range(s.objects) :
                      so.ID = e.SourceObjectID /\ so.TypeID = et.SourceObjectTypeID
                /\ \E to \in Range(s.objects) :
                      to.ID = e.TargetObjectID /\ to.TypeID = et.TargetObjectTypeID

\* zero or one element drawn from S, as a list
Opt(S) == {<<>>} \cup {<<x>> : x \in S}

\* the stores over object types T1, T2, objects O1 (of T1), O2 (of T2),
\* edge type ET1 (T1 -> T2) and edge E1 (O1 -> O2)
Stores(names1, aliases1, attrs) ==
    { s \in { [objectTypes |-> t1 \o t2, objects |-> o1 \o o2,
               edgeTypes |-> et, edges |-> e] :
                 t1 \in Opt({ObjectType("T1", n) : n \in names1}),
                 t2 \in Opt({ObjectType("T2", "service")}),
                 o1 \in Opt({Object("O1", "T1", a) : a \in aliases1}),
                 o2 \in Opt({Object("O2", "T2", <<"bob">>)}),
                 et \in Opt({EdgeType("ET1", "member", "T1", "T2", at) : at \in attrs}),
                 e \in Opt({Edge("E1", "ET1", "O1", "O2")}) } :
        Consistent(s) }

SrcStores == Stores({"user"}, {<<"alice">>, <<>>}, {<<"read", "write">>})

DstStores == Stores({"user", "admin"}, {<<"alice">>, <<>>}, {<<"write", "read">>})

----------------------------------------------------------------------------
(* Remote store behind one client handle *)

\* one page of a paginated List call starting after position cur
ListPage(list, cur) ==
    [Data |-> SubSeq(list, cur + 1, Min(cur + PageSize, Len(list))),
     HasNext |-> cur + PageSize < Len(list),
     Next |-> cur + PageSize]

\* a successful Create call: the entity exists afterwards with the passed fields
RemoteCreate(store, k, ent) ==
    IF ent.ID \in IDs(store[k])
    THEN [store EXCEPT ![k] = [i \in DOMAIN store[k] |->
                                 IF store[k][i].ID = ent.ID THEN ent ELSE store[k][i]]]
    ELSE [store EXCEPT ![k] = Append(store[k], ent)]

\* a successful Delete call: no entity of kind k with this identifier is left
RemoteDelete(store, k, id) ==
    [store EXCEPT ![k] = SelectSeq(store[k], LAMBDA x : x.ID # id)]

\* the kind of entity a remote operation acts on
OpKind(op) ==
    IF op \in {"CreateObjectType", "DeleteObjectType", "ListObjectTypes"} THEN "objectTypes"
    ELSE IF op \in {"CreateObject", "DeleteObject", "ListObjects"} THEN "objects"
    ELSE IF op \in {"CreateEdgeType", "DeleteEdgeType", "ListEdgeTypes"} THEN "edgeTypes"
    ELSE "edges"

CreateOps == {"CreateObjectType", "CreateObject", "CreateEdgeType", "CreateEdge"}
DeleteOps == {"DeleteObjectType", "DeleteObject", "DeleteEdgeType", "DeleteEdge"}
ListOps == {"ListObjectTypes", "ListObjects", "ListEdgeTypes", "ListEdges"}

\* the record of one remote call: kind is the kind of the entity the engine
\* handles, op the remote operation it invokes
Call(client, op, k, ent, cur, ok) ==
    [run |-> run, client |-> client, op |-> op, kind |-> k, id |-> ent.ID,
     ent |-> ent, cursor |-> cur, ok |-> ok]

----------------------------------------------------------------------------
(* Differ *)

\* the identifier-indexed lookup built from a list; a later entry overwrites
LookupMap(list) ==
    [id \in IDs(list) |->
        list[CHOOSE i \in DOMAIN list :
                /\ list[i].ID = id
                /\ \A j \in DOMAIN list : list[j].ID = id => j <= i]]

\* only the entities missing from dst, the changed ones left out
DiffKindMissingOnly(k, src, dst) ==
    SelectSeq(src, LAMBDA a : a.ID \notin IDs(dst))

\* every entity of src, compared with nothing
DiffKindEverything(k, src, dst) == src

\* the negation of the comparison left out: the unchanged entities kept
DiffKindUnchanged(k, src, dst) ==
    SelectSeq(src, LAMBDA a :
        \/ a.ID \notin IDs(dst)
        \/ \E b \in Range(dst) : b.ID = a.ID /\ EqualsIgnoringID(k, a, b))

\* each entity put in front of the change-set instead of appended to it
DiffKindReversed(k, src, dst) ==
    LET dstMap == LookupMap(dst)
        kept == SelectSeq(src, LAMBDA a :
                    \/ a.ID \notin DOMAIN dstMap
                    \/ ~EqualsIgnoringID(k, a, dstMap[a.ID]))
    IN  [i \in 1..Len(kept) |-> kept[Len(kept) + 1 - i]]

DiffKind(k, src, dst) ==
    LET dstMap == LookupMap(dst)
    IN  SelectSeq(src, LAMBDA a :
            \/ a.ID \notin DOMAIN dstMap
            \/ ~EqualsIgnoringID(k, a, dstMap[a.ID]))

\* the difference taken in both directions
DiffSymmetric(r, src, dst) ==
    [k \in Kinds |-> r[k] \o DiffKind(k, src[k], dst[k]) \o DiffKind(k, dst[k], src[k])]

\* r.diff(src, dst): appends to r what of src is missing or different in dst
Diff(r, src, dst) ==
    [k \in Kinds |-> r[k] \o DiffKind(k, src[k], dst[k])]

----------------------------------------------------------------------------
(* Orders *)

\* the objects read ahead of the object types
FetchOrderObjectsFirst == <<"objects", "objectTypes", "edgeTypes", "edges">>

\* fetch: the kinds in the order their fetch functions are called
FetchOrder == <<"objectTypes", "objects", "edgeTypes", "edges">>

\* objects inserted ahead of their object types
InsertOrderObjectsFirst == <<"objects", "objectTypes", "edgeTypes", "edges">>

InsertOrder == <<"objectTypes", "objects", "edgeTypes", "edges">>

\* edge types deleted ahead of their edges
DeleteOrderEdgeTypesFirst == <<"edgeTypes", "edges", "objects", "objectTypes">>

DeleteOrder == <<"edges", "edgeTypes", "objects", "objectTypes">>

CreateOp(k) ==
    IF k = "objectTypes" THEN "CreateObjectType"
    ELSE IF k = "objects" THEN "CreateObject"
    ELSE IF k = "edgeTypes" THEN "CreateEdgeType"
    ELSE "CreateEdge"

\* the remote operation the deletion loop of kind k invokes
DeleteOp(v, k) ==
    IF k = "edges" THEN "DeleteEdge"
    ELSE IF k = "edgeTypes" THEN "DeleteEdgeType"
    ELSE IF k = "objects" THEN "DeleteObject"
    ELSE IF v = "synctenant" THEN "DeleteObject"
    ELSE "DeleteObjectType"

\* the loops of an apply phase: the position of the next entity at or after
\* (s, i) in the given order of kinds, <<Len(order) + 1, 1>> when none is left
RECURSIVE Seek(_, _, _, _)
Seek(order, res, s, i) ==
    IF s > Len(order) THEN <<Len(order) + 1, 1>>
    ELSE IF i <= Len(res[order[s]]) THEN <<s, i>>
    ELSE Seek(order, res, s + 1, 1)

----------------------------------------------------------------------------
(* Invocations: flags, environment and configuration file *)

DefaultClientSecretVar == "UC_CLIENT_SECRET"

EnvVars == {DefaultClientSecretVar, "SRC_SECRET"}

\* config.Context
Context(url, id, secret) == [URL |-> url, ClientID |-> id, ClientSecret |-> secret]

\* the outcome of config.Load: an error, or the contexts by name
ConfigFile(ok, contexts) == [ok |-> ok, Contexts |-> contexts]

\* LoadFrom of a path that does not exist: no error, no contexts
NoConfigFile == ConfigFile(TRUE, <<>>)

\* only sync/tenant.go reads the configuration file
ConfigFiles(v) ==
    IF v = "sync"
    THEN { ConfigFile(FALSE, <<>>),
           ConfigFile(TRUE, [n \in {"prod", "stage"} |->
               IF n = "prod" THEN Context("https://src", "src-id", "src-secret")
               ELSE Context("https://dst", "dst-id", "dst-secret")]),
           ConfigFile(TRUE, [n \in {"prod", "stage"} |->
               IF n = "prod" THEN Context("https://src", "src-id", "src-secret")
               ELSE Context("https://dst", "dst-id", "")]) }
    ELSE { NoConfigFile }

\* the fields the flags set; synctenant has no --source / --destination
Invocations(v) ==
    [Source : IF v = "sync" THEN {"", "prod", "nope"} ELSE {""},
     SourceURL : {"", "https://src"},
     SourceClientId : {"", "src-id"},
     SourceClientSecretVar : EnvVars,
     Destination : IF v = "sync" THEN {"", "stage"} ELSE {""},
     DestinationURL : {"", "https://dst"},
     DestinationClientId : {"", "dst-id"},
     DestinationClientSecretVar : {DefaultClientSecretVar}]

\* both tenants given by URL and client id, the secret variables left at
\* their default
ExplicitArgs ==
    [Source |-> "", SourceURL |-> "https://src", SourceClientId |-> "src-id",
     SourceClientSecretVar |-> DefaultClientSecretVar,
     Destination |-> "", DestinationURL |-> "https://dst",
     DestinationClientId |-> "dst-id",
     DestinationClientSecretVar |-> DefaultClientSecretVar]

\* an unset variable reads as ""
Environs == [EnvVars -> {"", "s3cret"}]

SecretSet == [v \in EnvVars |-> IF v = DefaultClientSecretVar THEN "s3cret" ELSE ""]

\* a source of one object type
SmallStore == [NewResources EXCEPT !.objectTypes = <<ObjectType("T1", "user")>>]

StorePairs == {<<SmallStore, NewResources>>, <<NewResources, SmallStore>>}

----------------------------------------------------------------------------
(* Initial state *)

\* config.LoadFrom of a path that does not exist
EmptyConfig == [CurrentContext |-> "", Contexts |-> <<>>]

\* no operation yet
NoOp == [op |-> "", name |-> "", err |-> FALSE, before |-> EmptyConfig]

\* the context commands have not been used
ContextInit ==
    /\ conf = EmptyConfig
    /\ lastOp = NoOp

\* the goroutines that call into the cache
Goroutines == {"g1", "g2"}

\* a goroutine outside the cache
Idle == [op |-> "", loc |-> [prefix |-> "", path |-> ""], at |-> "idle"]

\* var c = &cache{secrets: map[string]cacheObject{}}; the providers hold a
\* kubernetes secret and an environment variable
SecretInit ==
    /\ secrets = <<>>
    /\ now = 0
    /\ backend = [kubernetes |-> [db |-> "v1"], env |-> [MY_SECRET |-> "e1"]]
    /\ out = [op |-> "", loc |-> [prefix |-> "", path |-> ""], value |-> "", err |-> FALSE,
              found |-> FALSE, called |-> FALSE, before |-> <<>>, at |-> 0]
    /\ held = [readers |-> {}, writer |-> ""]
    /\ gor = [g \in Goroutines |-> Idle]
    /\ conv = [path |-> <<>>, done |-> FALSE, name |-> <<>>]

\* the command is started: nothing validated, fetched or called yet
Started ==
    /\ cmd = args
    /\ env = environ
    /\ clients = {}
    /\ validated = FALSE
    /\ dstStore0 = dstStore
    /\ srcResources = NewResources
    /\ dstResources = NewResources
    /\ deleteResources = NewResources
    /\ insertResources = NewResources
    /\ pc = "validate"
    /\ step = 1
    /\ idx = 1
    /\ cursor = 0
    /\ acc = <<>>
    /\ writes = 0
    /\ calls = <<>>
    /\ diffs = <<>>
    /\ run = 1

Init ==
    /\ ContextInit
    /\ SecretInit
    /\ variant \in {"sync", "synctenant"}
    /\ \/ /\ dryRun \in BOOLEAN
          /\ insertOnly \in BOOLEAN
          /\ verbose \in BOOLEAN
          /\ srcStore \in SrcStores
          /\ dstStore \in DstStores
          /\ args = ExplicitArgs
          /\ environ = SecretSet
          /\ cfgFile = NoConfigFile
       \/ /\ dryRun = FALSE
          /\ insertOnly = FALSE
          /\ verbose = FALSE
          /\ \E p \in StorePairs : srcStore = p[1] /\ dstStore = p[2]
          /\ args \in Invocations(variant)
          /\ environ \in Environs
          /\ cfgFile \in ConfigFiles(variant)
    /\ Started

config == <<variant, dryRun, insertOnly, verbose, cfgFile, args, environ, contextVars,
           secretVars, writes>>

proc == <<cmd, env, clients, validated>>

----------------------------------------------------------------------------
(* Validation and client creation *)

URLField(t) == IF t = "src" THEN "SourceURL" ELSE "DestinationURL"
ClientIdField(t) == IF t = "src" THEN "SourceClientId" ELSE "DestinationClientId"
SecretVarField(t) == IF t = "src" THEN "SourceClientSecretVar" ELSE "DestinationClientSecretVar"
ContextField(t) == IF t = "src" THEN "Source" ELSE "Destination"

\* the outcome of validate: its error, the command's fields and the environment
Outcome(ok, c, e) == [ok |-> ok, c |-> c, env |-> e]

\* "Validate that all required fields are now set"
Required(c, e) ==
    \A t \in {"src", "dst"} :
        /\ c[URLField(t)] # ""
        /\ c[ClientIdField(t)] # ""
        /\ e[c[SecretVarField(t)]] # ""

\* the context of tenant t applied: URL and client id only where the flags
\* left them empty, the secret only where the environment variable is empty
ApplyContext(o, t, ctx) ==
    LET var == o.c[SecretVarField(t)]
    IN  Outcome(TRUE,
                [o.c EXCEPT ![URLField(t)] = IF @ = "" THEN ctx.URL ELSE @,
                            ![ClientIdField(t)] = IF @ = "" THEN ctx.ClientID ELSE @],
                IF o.env[var] = "" /\ ctx.ClientSecret # ""
                THEN [o.env EXCEPT ![var] = ctx.ClientSecret]
                ELSE o.env)

\* "Handle source configuration" / "Handle destination configuration"
HandleContext(o, t, cfg) ==
    IF ~o.ok \/ o.c[ContextField(t)] = "" THEN o
    ELSE IF o.c[ContextField(t)] \notin DOMAIN cfg.Contexts
    THEN Outcome(FALSE, o.c, o.env)
    ELSE ApplyContext(o, t, cfg.Contexts[o.c[ContextField(t)]])

\* TenantCommand.validate of sync/tenant.go
validateTenantCommand(c, e, cfg) ==
    IF (c.Source # "" \/ c.Destination # "") /\ ~cfg.ok
    THEN Outcome(FALSE, c, e)
    ELSE LET o == HandleContext(HandleContext(Outcome(TRUE, c, e), "src", cfg), "dst", cfg)
         IN  Outcome(o.ok /\ Required(o.c, o.env), o.c, o.env)

\* Command.validate of synctenant
validateCommand(c, e) == Outcome(Required(c, e), c, e)

validate(v, c, e, cfg) ==
    IF v = "sync" THEN validateTenantCommand(c, e, cfg) ELSE validateCommand(c, e)

\* RunE: validate, and sync only when validate returned no error
Validate ==
    /\ pc = "validate"
    /\ LET o == validate(variant, cmd, env, cfgFile)
       IN  /\ cmd' = o.c
           /\ env' = o.env
           /\ validated' = o.ok
           /\ pc' = IF o.ok THEN "clientSrc" ELSE "failed"
    /\ UNCHANGED <<config, clients, srcStore, dstStore, dstStore0, srcResources,
                   dstResources, deleteResources, insertResources, step, idx,
                   cursor, acc, calls, diffs, run>>

\* initToken of sync/tenant.go refuses an empty secret; synctenant passes it on
SecretRefused(v, secret) == v = "sync" /\ secret = ""

\* the error of getClient dropped: sync goes on to the fetch
ClientFailedIgnored(t) == IF t = "src" THEN "fetchSrc" ELSE "fetchDst"

\* sync, "if err != nil" after getClient: the error is returned
ClientFailed(t) == "failed"

\* newTenant(...).getClient(): the token source or the client may fail to be
\* created
getClient(t) ==
    /\ pc = IF t = "src" THEN "clientSrc" ELSE "clientDst"
    /\ \E ok \in BOOLEAN :
          IF ok /\ ~SecretRefused(variant, env[cmd[SecretVarField(t)]])
          THEN /\ clients' = clients \cup {t}
               /\ pc' = IF t = "src" THEN "fetchSrc" ELSE "fetchDst"
          ELSE /\ pc' = ClientFailed(t)
               /\ UNCHANGED clients
    /\ UNCHANGED <<config, cmd, env, validated, srcStore, dstStore, dstStore0,
                   srcResources, dstResources, deleteResources, insertResources,
                   step, idx, cursor, acc, calls, diffs, run>>

getSrcClient == getClient("src")

getDstClient == getClient("dst")

----------------------------------------------------------------------------
(* Fetcher *)

Fetching == pc \in {"fetchSrc", "fetchDst"}

Tenant == IF pc = "fetchSrc" THEN "src" ELSE "dst"

Store(t) == IF t = "src" THEN srcStore ELSE dstStore

\* the insert-only flag not consulted
AfterFetchIgnoringInsertOnly(io) == "deletions"

\* sync after both fetches: "if !c.InsertOnly" guards the whole deletion phase
AfterFetch(io) == IF io THEN "insertions" ELSE "deletions"

\* r.<kind> = list at the end of a fetch function, and the return to fetch
\* and sync: the next kind, the next tenant or the first diff
Fetched(k, list) ==
    /\ IF pc = "fetchSrc"
       THEN /\ srcResources' = [srcResources EXCEPT ![k] = list]
            /\ UNCHANGED dstResources
       ELSE /\ dstResources' = [dstResources EXCEPT ![k] = list]
            /\ UNCHANGED srcResources
    /\ cursor' = 0
    /\ acc' = <<>>
    /\ IF step < Len(FetchOrder)
       THEN /\ step' = step + 1
            /\ pc' = pc
       ELSE /\ step' = 1
            /\ pc' = IF pc = "fetchSrc" THEN "clientDst" ELSE AfterFetch(insertOnly)

\* the error of a List call dropped: sync goes on with what was fetched
FetchFailedIgnored ==
    /\ pc' = IF pc = "fetchSrc" THEN "clientDst" ELSE AfterFetch(insertOnly)
    /\ step' = 1
    /\ cursor' = 0
    /\ acc' = <<>>
    /\ UNCHANGED <<srcResources, dstResources>>

\* a List call returned an error: fetch and sync return it
FetchFailed ==
    /\ pc' = "failed"
    /\ cursor' = 0
    /\ acc' = <<>>
    /\ UNCHANGED <<srcResources, dstResources, step>>

\* fetchObjectTypes / fetchEdgeTypes: one unpaginated List call
FetchAll(k, op) ==
    /\ Fetching
    /\ FetchOrder[step] = k
    /\ \E ok \in BOOLEAN :
        /\ calls' = Append(calls, Call(Tenant, op, k, [ID |-> ""], 0, ok))
        /\ IF ok THEN Fetched(k, Store(Tenant)[k]) ELSE FetchFailed
    /\ UNCHANGED <<config, proc, srcStore, dstStore, dstStore0, deleteResources,
                   insertResources, idx, diffs, run>>

\* the page kept in place of the pages read before it
AccumulateLastPage(list, data) == data

\* objects = append(objects, resp.Data...)
Accumulate(list, data) == list \o data

\* fetchObjects / fetchEdges: one List call of the pagination loop
FetchPage(k, op) ==
    /\ Fetching
    /\ FetchOrder[step] = k
    /\ \E ok \in BOOLEAN :
        /\ calls' = Append(calls, Call(Tenant, op, k, [ID |-> ""], cursor, ok))
        /\ IF ok
           THEN LET resp == ListPage(Store(Tenant)[k], cursor)
                    all == Accumulate(acc, resp.Data)
                IN  IF resp.HasNext
                    THEN /\ acc' = all
                         /\ cursor' = resp.Next
                         /\ UNCHANGED <<srcResources, dstResources, pc, step>>
                    ELSE Fetched(k, all)
           ELSE FetchFailed
    /\ UNCHANGED <<config, proc, srcStore, dstStore, dstStore0, deleteResources,
                   insertResources, idx, diffs, run>>

fetchObjectTypes == FetchAll("objectTypes", "ListObjectTypes")

fetchObjects == FetchPage("objects", "ListObjects")

fetchEdgeTypes == FetchAll("edgeTypes", "ListEdgeTypes")

fetchEdges == FetchPage("edges", "ListEdges")

----------------------------------------------------------------------------
(* Orchestrator: the diffs *)

NonEmpty(res) == \E k \in Kinds : Len(res[k]) > 0

\* the deletion diff taken in the direction of the insertion diff
DeletionDiffSwapped(src, dst) == Diff(NewResources, src, dst)

\* deleteResources.diff(ctx, dstResources, srcResources)
DeletionDiff(src, dst) == Diff(NewResources, dst, src)

\* the insertion diff taken against the destination as it is by now
InsertionDiffLive(src, dst) == Diff(NewResources, src, dstStore)

\* insertResources.diff(ctx, srcResources, dstResources)
InsertionDiff(src, dst) == Diff(NewResources, src, dst)

\* the dry-run flag not consulted before delete
AppliesDeletionsIgnoringDryRun(dr, del) == NonEmpty(del)

\* "if !c.DryRun" around delete, entered only for a non-empty change-set
AppliesDeletions(dr, del) == ~dr /\ NonEmpty(del)

\* the dry-run flag not consulted before insert
AppliesInsertionsIgnoringDryRun(dr, ins) == NonEmpty(ins)

\* "if c.DryRun { return nil }" before insert, entered only for a non-empty change-set
AppliesInsertions(dr, ins) == ~dr /\ NonEmpty(ins)

\* sync, "Handle deletions": the deletion diff and the entry of the delete phase
ComputeDeletions ==
    /\ pc = "deletions"
    /\ LET del == DeletionDiff(srcResources, dstResources)
           p == Seek(DeleteOrder, del, 1, 1)
       IN  /\ deleteResources' = del
           /\ diffs' = Append(diffs, [run |-> run, a |-> "dst", b |-> "src"])
           /\ IF AppliesDeletions(dryRun, del)
              THEN pc' = "delete" /\ step' = p[1] /\ idx' = p[2]
              ELSE pc' = "insertions" /\ step' = 1 /\ idx' = 1
    /\ UNCHANGED <<config, proc, srcStore, dstStore, dstStore0, srcResources, dstResources,
                   insertResources, cursor, acc, calls, run>>

\* sync, "Handle insertions": the insertion diff and the entry of the insert phase
ComputeInsertions ==
    /\ pc = "insertions"
    /\ LET ins == InsertionDiff(srcResources, dstResources)
           p == Seek(InsertOrder, ins, 1, 1)
       IN  /\ insertResources' = ins
           /\ diffs' = Append(diffs, [run |-> run, a |-> "src", b |-> "dst"])
           /\ IF AppliesInsertions(dryRun, ins)
              THEN pc' = "insert" /\ step' = p[1] /\ idx' = p[2]
              ELSE pc' = "completed" /\ step' = 1 /\ idx' = 1
    /\ UNCHANGED <<config, proc, srcStore, dstStore, dstStore0, srcResources, dstResources,
                   deleteResources, cursor, acc, calls, run>>

----------------------------------------------------------------------------
(* Applier *)

NilAlias(k, ent) == k = "objects" /\ ent.Alias = <<>>

\* *o.Alias is evaluated before the Create call is made: in the arguments of
\* CreateObject, and in the verbose progress line before it
InsertDerefsBeforeCall(v, vb, k) == k = "objects"

\* *o.Alias is evaluated before the Delete call only by the verbose progress line
DeleteDerefsBeforeCall(v, vb, k) == v = "sync" /\ vb /\ k = "objects"

\* *o.Alias is evaluated by the failure message of a failed call
DerefsOnFailure(v, k) == v = "sync" /\ k = "objects"

\* the failed call tried again: the loop stays on the same entity
AfterFailedCallRetried(v, k, ent) == pc

\* the error of delete dropped: sync goes on to the insertions
AfterFailedCallContinued(v, k, ent) == IF pc = "delete" THEN "insertions" ELSE "failed"

\* the state a failed mutation call leaves the run in
AfterFailedCall(v, k, ent) ==
    IF DerefsOnFailure(v, k) /\ NilAlias(k, ent) THEN "panicked" ELSE "failed"

\* the destination fetched again once the deletions are applied
AfterDeleteRefetched == "fetchDst"

\* sync after delete returned nil: "Handle insertions"
AfterDelete == "insertions"

\* every other entity of a list left out
NextIndexSkipping(i) == i + 2

\* for _, o := range list: the entity after entity i
NextIndex(i) == i + 1

\* the change-sets applied through the source client
ApplyClientSource == "src"

\* the client handed to delete and insert: dstClient
ApplyClient == "dst"

\* the tenant behind the client of delete and insert is left as s
Mutated(s) ==
    IF ApplyClient = "dst"
    THEN dstStore' = s /\ srcStore' = srcStore
    ELSE srcStore' = s /\ dstStore' = dstStore

\* the loops of delete after the call for entity idx of kind DeleteOrder[step]
DeleteAdvance ==
    LET p == Seek(DeleteOrder, deleteResources, step, NextIndex(idx))
    IN  IF p[1] > Len(DeleteOrder)
        THEN pc' = AfterDelete /\ step' = 1 /\ idx' = 1
        ELSE pc' = "delete" /\ step' = p[1] /\ idx' = p[2]

\* one iteration of the loop of delete over the entities of kind k
DeleteCall(k) ==
    /\ pc = "delete"
    /\ DeleteOrder[step] = k
    /\ LET ent == deleteResources[k][idx]
           op == DeleteOp(variant, k)
       IN  IF DeleteDerefsBeforeCall(variant, verbose, k) /\ NilAlias(k, ent)
           THEN /\ pc' = "panicked"
                /\ UNCHANGED <<srcStore, dstStore, calls, step, idx>>
           ELSE \E ok \in BOOLEAN :
                /\ calls' = Append(calls, Call(ApplyClient, op, k, [ID |-> ent.ID], 0, ok))
                /\ IF ok
                   THEN /\ Mutated(RemoteDelete(Store(ApplyClient), OpKind(op), ent.ID))
                        /\ DeleteAdvance
                   ELSE /\ pc' = AfterFailedCall(variant, k, ent)
                        /\ UNCHANGED <<srcStore, dstStore, step, idx>>
    /\ UNCHANGED <<config, proc, dstStore0, srcResources, dstResources,
                   deleteResources, insertResources, cursor, acc, diffs, run>>

deleteEdges == DeleteCall("edges")

deleteEdgeTypes == DeleteCall("edgeTypes")

deleteObjects == DeleteCall("objects")

deleteObjectTypes == DeleteCall("objectTypes")

\* the entity created under a fresh identifier instead of the one it carries
CreateArgsFreshID(k, ent) == [ent EXCEPT !.ID = "new"]

\* the arguments of a Create call: the entity's identifier and every other
\* field of it (*o.Alias becomes the new object's alias)
CreateArgs(k, ent) == ent

\* the loops of insert after the call for entity idx of kind InsertOrder[step]
InsertAdvance ==
    LET p == Seek(InsertOrder, insertResources, step, NextIndex(idx))
    IN  IF p[1] > Len(InsertOrder)
        THEN pc' = "completed" /\ step' = 1 /\ idx' = 1
        ELSE pc' = "insert" /\ step' = p[1] /\ idx' = p[2]

\* one iteration of the loop of insert over the entities of kind k
InsertCall(k) ==
    /\ pc = "insert"
    /\ InsertOrder[step] = k
    /\ LET ent == insertResources[k][idx]
           op == CreateOp(k)
       IN  IF InsertDerefsBeforeCall(variant, verbose, k) /\ NilAlias(k, ent)
           THEN /\ pc' = "panicked"
                /\ UNCHANGED <<srcStore, dstStore, calls, step, idx>>
           ELSE \E ok \in BOOLEAN :
                /\ calls' = Append(calls, Call(ApplyClient, op, k, CreateArgs(k, ent), 0, ok))
                /\ IF ok
                   THEN /\ Mutated(RemoteCreate(Store(ApplyClient), OpKind(op),
                                                 CreateArgs(k, ent)))
                        /\ InsertAdvance
                   ELSE /\ pc' = AfterFailedCall(variant, k, ent)
                        /\ UNCHANGED <<srcStore, dstStore, step, idx>>
    /\ UNCHANGED <<config, proc, dstStore0, srcResources, dstResources,
                   deleteResources, insertResources, cursor, acc, diffs, run>>

insertObjectTypes == InsertCall("objectTypes")

insertObjects == InsertCall("objects")

insertEdgeTypes == InsertCall("edgeTypes")

insertEdges == InsertCall("edges")

----------------------------------------------------------------------------
(* The command is invoked again with the same flags after a completed run *)

Rerun ==
    /\ pc = "completed"
    /\ run < MaxRuns
    /\ run' = run + 1
    /\ pc' = "validate"
    /\ cmd' = args
    /\ env' = environ
    /\ clients' = {}
    /\ validated' = FALSE
    /\ step' = 1
    /\ idx' = 1
    /\ cursor' = 0
    /\ acc' = <<>>
    /\ srcResources' = NewResources
    /\ dstResources' = NewResources
    /\ deleteResources' = NewResources
    /\ insertResources' = NewResources
    /\ UNCHANGED <<config, srcStore, dstStore, dstStore0, calls, diffs>>

Next ==
    \/ Validate
    \/ getSrcClient
    \/ getDstClient
    \/ fetchObjectTypes
    \/ fetchObjects
    \/ fetchEdgeTypes
    \/ fetchEdges
    \/ ComputeDeletions
    \/ deleteEdges
    \/ deleteEdgeTypes
    \/ deleteObjects
    \/ deleteObjectTypes
    \/ ComputeInsertions
    \/ insertObjectTypes
    \/ insertObjects
    \/ insertEdgeTypes
    \/ insertEdges
    \/ Rerun

Spec == Init /\ [][Next]_vars

----------------------------------------------------------------------------
(* A competing writer against the destination *)

\* a tenant that holds two object types, two objects, an edge type and an edge
RaceStore ==
    [objectTypes |-> <<ObjectType("T1", "user"), ObjectType("T2", "service")>>,
     objects |-> <<Object("O1", "T1", <<"alice">>), Object("O2", "T2", <<"bob">>)>>,
     edgeTypes |-> <<EdgeType("ET1", "member", "T1", "T2", <<"read", "write">>)>>,
     edges |-> <<Edge("E1", "ET1", "O1", "O2")>>]

\* what the other writer does to the destination: it creates an object type
\* of its own, renames one the run creates, or deletes an object
RaceWrites ==
    { [op |-> "CreateObjectType", ent |-> ObjectType("T3", "extra")],
      [op |-> "CreateObjectType", ent |-> ObjectType("T1", "rogue")],
      [op |-> "DeleteObject", ent |-> [ID |-> "O2"]] }

\* another client changes the destination once its snapshot is fetched,
\* while the run computes and applies its change-sets
CompetingWrite ==
    /\ pc \in {"deletions", "delete", "insertions", "insert"}
    /\ writes < MaxWrites
    /\ \E w \in RaceWrites :
          dstStore' = IF w.op \in CreateOps
                      THEN RemoteCreate(dstStore, OpKind(w.op), w.ent)
                      ELSE RemoteDelete(dstStore, OpKind(w.op), w.ent.ID)
    /\ writes' = writes + 1
    /\ UNCHANGED <<variant, dryRun, insertOnly, verbose, cfgFile, args, environ,
                   contextVars, secretVars, proc, srcStore, dstStore0, srcResources,
                   dstResources, deleteResources, insertResources, pc, step, idx,
                   cursor, acc, calls, diffs, run>>

InitRace ==
    /\ ContextInit
    /\ SecretInit
    /\ variant \in {"sync", "synctenant"}
    /\ dryRun \in BOOLEAN
    /\ insertOnly \in BOOLEAN
    /\ verbose = FALSE
    /\ \/ srcStore = RaceStore /\ dstStore = NewResources
       \/ /\ srcStore = [NewResources EXCEPT
                            !.objectTypes = <<ObjectType("T2", "service")>>,
                            !.objects = <<Object("O2", "T2", <<"bob">>)>>]
          /\ dstStore = RaceStore
    /\ args = ExplicitArgs
    /\ environ = SecretSet
    /\ cfgFile = NoConfigFile
    /\ Started

NextRace == Next \/ CompetingWrite

SpecRace == InitRace /\ [][NextRace]_vars

TypeOK ==
    /\ pc \in {"validate", "clientSrc", "clientDst",
               "fetchSrc", "fetchDst", "deletions", "delete", "insertions",
               "insert", "completed", "failed", "panicked"}
    /\ run \in 1..MaxRuns

----------------------------------------------------------------------------
(* The configuration and the context commands *)

ContextNames == {"local", "prod"}

\* the values of --url, --client-id and --client-secret of context set
SetFlags ==
    { Context("https://local", "local-id", "local-secret"),
      Context("https://prod", "prod-id", "prod-secret"),
      Context("", "prod-id", "prod-secret") }

\* the outcome of an operation on a configuration: its error and the
\* configuration it leaves
ConfigOutcome(err, c) == [err |-> err, c |-> c]

\* Config.SetContext
SetContext(c, name, ctx) ==
    [c EXCEPT !.Contexts = [n \in DOMAIN c.Contexts \cup {name} |->
                               IF n = name THEN ctx ELSE c.Contexts[n]]]

\* the current context left as it is when its context is deleted
DeleteContextKeepingCurrent(c, name) ==
    IF name \notin DOMAIN c.Contexts THEN ConfigOutcome(TRUE, c)
    ELSE ConfigOutcome(FALSE,
            [c EXCEPT !.Contexts = [n \in DOMAIN c.Contexts \ {name} |-> c.Contexts[n]]])

\* Config.DeleteContext
DeleteContext(c, name) ==
    IF name \notin DOMAIN c.Contexts THEN ConfigOutcome(TRUE, c)
    ELSE ConfigOutcome(FALSE,
            [CurrentContext |-> IF c.CurrentContext = name THEN "" ELSE c.CurrentContext,
             Contexts |-> [n \in DOMAIN c.Contexts \ {name} |-> c.Contexts[n]]])

\* Config.UseContext
UseContext(c, name) ==
    IF name \notin DOMAIN c.Contexts THEN ConfigOutcome(TRUE, c)
    ELSE ConfigOutcome(FALSE, [c EXCEPT !.CurrentContext = name])

\* SetCommand.RunE between Load and Save: "If this is the first context,
\* make it current" is decided by len(cfg.Contexts) == 1 after SetContext
SetAndMakeCurrent(c, name, ctx) ==
    LET c1 == SetContext(c, name, ctx)
    IN  IF Cardinality(DOMAIN c1.Contexts) = 1
        THEN [c1 EXCEPT !.CurrentContext = name]
        ELSE c1

\* the sync command at rest
SyncIdle ==
    /\ variant = "sync"
    /\ dryRun = FALSE
    /\ insertOnly = FALSE
    /\ verbose = FALSE
    /\ srcStore = NewResources
    /\ dstStore = NewResources
    /\ dstStore0 = NewResources
    /\ args = ExplicitArgs
    /\ environ = SecretSet
    /\ cfgFile = NoConfigFile
    /\ cmd = args
    /\ env = environ
    /\ clients = {}
    /\ validated = FALSE
    /\ srcResources = NewResources
    /\ dstResources = NewResources
    /\ deleteResources = NewResources
    /\ insertResources = NewResources
    /\ pc = "validate"
    /\ step = 1
    /\ idx = 1
    /\ cursor = 0
    /\ acc = <<>>
    /\ calls = <<>>
    /\ diffs = <<>>
    /\ run = 1
    /\ writes = 0

\* an operation that ends with outcome o
Operated(op, name, o) ==
    /\ conf' = o.c
    /\ lastOp' = [op |-> op, name |-> name, err |-> o.err, before |-> conf]
    /\ UNCHANGED <<syncVars, secretVars>>

\* the methods of Config called on the loaded configuration
CallSetContext ==
    \E name \in ContextNames, ctx \in SetFlags :
        Operated("SetContext", name, ConfigOutcome(FALSE, SetContext(conf, name, ctx)))

CallDeleteContext ==
    \E name \in ContextNames : Operated("DeleteContext", name, DeleteContext(conf, name))

CallUseContext ==
    \E name \in ContextNames : Operated("UseContext", name, UseContext(conf, name))

NextConfig ==
    \/ CallSetContext
    \/ CallDeleteContext
    \/ CallUseContext

InitConfig == ContextInit /\ SecretInit /\ SyncIdle

SpecConfig == InitConfig /\ [][NextConfig]_vars

\* a command between config.Load and cfg.Save, either of which may fail:
\* the file is rewritten only when the operation and Save return no error
LoadAndSave(o) ==
    { ConfigOutcome(TRUE, conf) } \cup
    { ConfigOutcome(o.err, IF o.err THEN conf ELSE o.c) }

\* SetCommand.RunE: the three flags are required
SetCommand ==
    \E name \in ContextNames, ctx \in SetFlags :
        IF ctx.URL = "" \/ ctx.ClientID = "" \/ ctx.ClientSecret = ""
        THEN Operated("set", name, ConfigOutcome(TRUE, conf))
        ELSE \E o \in LoadAndSave(ConfigOutcome(FALSE, SetAndMakeCurrent(conf, name, ctx))) :
                Operated("set", name, o)

\* UseCommand.RunE
UseCommand ==
    \E name \in ContextNames :
        \E o \in LoadAndSave(UseContext(conf, name)) : Operated("use", name, o)

\* DeleteCommand.RunE
DeleteCommand ==
    \E name \in ContextNames :
        \E o \in LoadAndSave(DeleteContext(conf, name)) : Operated("delete", name, o)

NextContext ==
    \/ SetCommand
    \/ UseCommand
    \/ DeleteCommand

SpecContext == InitConfig /\ [][NextContext]_vars

----------------------------------------------------------------------------
(* Secrets: locations, providers, the package cache and secret.String *)

\* the lifetime of a cache entry, in ticks of the clock
secretCacheDuration == 2

PrefixKubernetes == "kube://secrets/"
PrefixEnv == "env://"

AllPrefixes == {"aws://secrets/", "dev://", "dev-literal://", PrefixKubernetes, PrefixEnv}

\* a string, split where a prefix would end: prefix is "" for a string that
\* starts with none of the prefixes
Loc(prefix, path) == [prefix |-> prefix, path |-> path]

EmptyLocation == Loc("", "")

Locations ==
    { EmptyLocation,
      Loc("", "testsecret"),
      Loc(PrefixKubernetes, "db"),
      Loc(PrefixEnv, "MY_SECRET"),
      Loc(PrefixEnv, "MISSING") }

\* the outcome of a call that returns a string and an error
Returned(value, err) == [value |-> value, err |-> err]

\* prefix.PrefixFromString
PrefixFromString(loc) ==
    IF loc.prefix \in AllPrefixes THEN Returned(loc.prefix, FALSE) ELSE Returned("", TRUE)

\* Prefix.Value: strings.TrimPrefix
PrefixValue(px, loc) == IF loc.prefix = px THEN Loc("", loc.path) ELSE loc

\* provider.FromLocation: the provider a location's prefix names
FromLocation(loc) ==
    LET px == PrefixFromString(loc)
    IN  IF px.err THEN Returned("", TRUE)
        ELSE IF px.value = PrefixKubernetes THEN Returned("kubernetes", FALSE)
        ELSE IF px.value = PrefixEnv THEN Returned("env", FALSE)
        ELSE IF px.value = "dev-literal://" THEN Returned("dev-literal", FALSE)
        ELSE IF px.value = "aws://secrets/" THEN Returned("aws", FALSE)
        ELSE Returned("dev", FALSE)

\* Provider.Prefix
ProviderPrefix(pv) ==
    IF pv = "kubernetes" THEN PrefixKubernetes
    ELSE IF pv = "env" THEN PrefixEnv
    ELSE IF pv = "dev-literal" THEN "dev-literal://"
    ELSE IF pv = "aws" THEN "aws://secrets/"
    ELSE "dev://"

\* Provider.Get: the kubernetes provider reads the named secret and may fail
\* to reach the cluster, the env provider refuses an undefined or empty
\* variable; no location of Locations names another provider
ProviderGet(pv, path, b, ok) ==
    IF pv = "kubernetes"
    THEN IF ok /\ path.prefix = "" /\ path.path \in DOMAIN b.kubernetes
         THEN Returned(b.kubernetes[path.path], FALSE)
         ELSE Returned("", TRUE)
    ELSE IF pv = "env"
    THEN IF path.prefix = "" /\ path.path \in DOMAIN b.env /\ b.env[path.path] # ""
         THEN Returned(b.env[path.path], FALSE)
         ELSE Returned("", TRUE)
    ELSE Returned("", TRUE)

\* Provider.Delete: only the kubernetes provider holds anything to delete
ProviderDelete(pv, path, b, ok) ==
    IF pv = "kubernetes"
    THEN IF ok /\ path.prefix = "" /\ path.path \in DOMAIN b.kubernetes
         THEN [err |-> FALSE,
               backend |-> [b EXCEPT !.kubernetes =
                               [n \in DOMAIN b.kubernetes \ {path.path} |-> b.kubernetes[n]]]]
         ELSE [err |-> TRUE, backend |-> b]
    ELSE [err |-> FALSE, backend |-> b]

\* cache.Get: an entry that is missing or has expired is deleted
CacheGet(m, loc, t) ==
    IF loc \in DOMAIN m /\ t < m[loc].Expires
    THEN [value |-> m[loc].Secret, found |-> TRUE, secrets |-> m]
    ELSE [value |-> "", found |-> FALSE,
          secrets |-> [l \in DOMAIN m \ {loc} |-> m[l]]]

\* cache.Store
CacheStore(m, loc, secret, t) ==
    [l \in DOMAIN m \cup {loc} |->
        IF l = loc THEN [Secret |-> secret, Expires |-> t + secretCacheDuration] ELSE m[l]]

\* the value stored under the path handed to the provider
StoreKeyPath(loc, px) == PrefixValue(px, loc)

\* c.Store(s.location, value): the key of the cache entry
StoreKey(loc, px) == loc

\* the outcome of String.Resolve: value and error, whether the cache held
\* the value, whether the provider was called, and the cache it leaves
Resolved(value, err, found, called, m) ==
    [value |-> value, err |-> err, found |-> found, called |-> called, secrets |-> m]

\* String.Resolve of FromLocation(loc)
Resolve(loc, m, t, b, ok) ==
    IF loc = EmptyLocation THEN Resolved("", FALSE, FALSE, FALSE, m)
    ELSE LET got == CacheGet(m, loc, t)
             pv == FromLocation(loc)
         IN  IF got.found THEN Resolved(got.value, FALSE, TRUE, FALSE, got.secrets)
             ELSE IF pv.err THEN Resolved("", TRUE, FALSE, FALSE, got.secrets)
             ELSE LET px == ProviderPrefix(pv.value)
                      value == ProviderGet(pv.value, PrefixValue(px, loc), b, ok)
                  IN  IF value.err THEN Resolved("", TRUE, FALSE, TRUE, got.secrets)
                      ELSE Resolved(value.value, FALSE, FALSE, TRUE,
                                    CacheStore(got.secrets, StoreKey(loc, px), value.value, t))

\* an operation on a secret that ends with the given outcome
SecretOp(op, loc, value, err, found, called) ==
    /\ out' = [op |-> op, loc |-> loc, value |-> value, err |-> err, found |-> found,
               called |-> called, before |-> secrets, at |-> now]
    /\ UNCHANGED <<syncVars, contextVars, held, gor, conv>>

\* secret.FromLocation(loc).Resolve(ctx)
ResolveString ==
    \E loc \in Locations, ok \in BOOLEAN :
        LET r == Resolve(loc, secrets, now, backend, ok)
        IN  /\ secrets' = r.secrets
            /\ SecretOp("Resolve", loc, r.value, r.err, r.found, r.called)
            /\ UNCHANGED <<now, backend>>

\* c.Get(loc)
LookupCache ==
    \E loc \in Locations :
        LET r == CacheGet(secrets, loc, now)
        IN  /\ secrets' = r.secrets
            /\ SecretOp("Get", loc, r.value, FALSE, r.found, FALSE)
            /\ UNCHANGED <<now, backend>>

\* secret.FromLocation(loc).Delete(ctx)
DeleteString ==
    \E loc \in Locations, ok \in BOOLEAN :
        LET pv == FromLocation(loc)
            r == IF pv.err THEN [err |-> TRUE, backend |-> backend]
                 ELSE ProviderDelete(pv.value, PrefixValue(ProviderPrefix(pv.value), loc),
                                     backend, ok)
        IN  /\ backend' = r.backend
            /\ SecretOp("Delete", loc, "", r.err, FALSE, ~pv.err)
            /\ UNCHANGED <<secrets, now>>

\* Provider.Save of the kubernetes provider: the secret is created or updated
SaveSecret ==
    \E v \in {"v1", "v2"} :
        /\ backend' = [backend EXCEPT !.kubernetes =
                          [n \in DOMAIN @ \cup {"db"} |-> IF n = "db" THEN v ELSE @[n]]]
        /\ SecretOp("Save", Loc(PrefixKubernetes, "db"), v, FALSE, FALSE, TRUE)
        /\ UNCHANGED <<secrets, now>>

\* cache.Reset
ResetCache ==
    /\ secrets' = <<>>
    /\ SecretOp("Reset", EmptyLocation, "", FALSE, FALSE, FALSE)
    /\ UNCHANGED <<now, backend>>

\* time passes
Tick ==
    /\ now < MaxTime
    /\ now' = now + 1
    /\ UNCHANGED <<secrets, backend, out, syncVars, contextVars, held, gor, conv>>

NextSecret ==
    \/ ResolveString
    \/ LookupCache
    \/ DeleteString
    \/ SaveSecret
    \/ ResetCache
    \/ Tick

SpecSecret == InitConfig /\ [][NextSecret]_vars

----------------------------------------------------------------------------
(* The cache under concurrent callers *)

\* nothing runs once the runtime has thrown "concurrent map" and ended the process
Running == \A g \in Goroutines : gor[g].at # "fatal"

\* the statements that change the map; "Get.read" is the one that reads it
WritePoints == {"Get.delete", "Store.assign", "Reset.assign"}

\* goroutine g is about to access the map while another goroutine is about
\* to change it, or g is about to change it while another one accesses it
Races(g) ==
    \E h \in Goroutines \ {g} :
        \/ gor[h].at \in WritePoints /\ gor[g].at \in {"Get.read"} \cup WritePoints
        \/ gor[h].at = "Get.read" /\ gor[g].at \in WritePoints

\* goroutine g moves to position at, everything but the cache and the mutex kept
Moves(g, at) ==
    /\ gor' = [gor EXCEPT ![g].at = at]
    /\ UNCHANGED <<syncVars, contextVars, now, backend, out, conv>>

\* an unsynchronised access ends as if it were alone, or the runtime detects
\* it and ends the process
Accessed(g, at, m) ==
    \/ secrets' = m /\ Moves(g, at)
    \/ Races(g) /\ secrets' = secrets /\ Moves(g, "fatal")

\* a goroutine calls c.Get(loc), c.Store(loc, secret) or c.Reset()
Enter(g) ==
    /\ Running /\ gor[g].at = "idle"
    /\ \E op \in {"Get", "Store", "Reset"}, loc \in {Loc(PrefixKubernetes, "db"), Loc(PrefixEnv, "MY_SECRET")} :
          gor' = [gor EXCEPT ![g] =
                    [op |-> op, loc |-> loc,
                     at |-> IF op = "Get" THEN "Get.RLock"
                            ELSE IF op = "Store" THEN "Store.Lock"
                            ELSE "Reset.assign"]]
    /\ UNCHANGED <<syncVars, contextVars, secrets, now, backend, out, held, conv>>

\* Get: c.secretsMutex.RLock()
GetRLock(g) ==
    /\ Running /\ gor[g].at = "Get.RLock"
    /\ held.writer = ""
    /\ held' = [held EXCEPT !.readers = @ \cup {g}]
    /\ secrets' = secrets
    /\ Moves(g, "Get.read")

\* Get: co, ok := c.secrets[loc] and the test of ok and of the expiry
GetRead(g) ==
    /\ Running /\ gor[g].at = "Get.read"
    /\ held' = held
    /\ Accessed(g, IF CacheGet(secrets, gor[g].loc, now).found
                   THEN "Get.RUnlock" ELSE "Get.delete", secrets)

\* Get: delete(c.secrets, loc)
GetDelete(g) ==
    /\ Running /\ gor[g].at = "Get.delete"
    /\ held' = held
    /\ Accessed(g, "Get.RUnlock", CacheGet(secrets, gor[g].loc, now).secrets)

\* Get: the deferred c.secretsMutex.RUnlock()
GetRUnlock(g) ==
    /\ Running /\ gor[g].at = "Get.RUnlock"
    /\ held' = [held EXCEPT !.readers = @ \ {g}]
    /\ secrets' = secrets
    /\ Moves(g, "idle")

\* Store: c.secretsMutex.Lock()
StoreLock(g) ==
    /\ Running /\ gor[g].at = "Store.Lock"
    /\ held.writer = "" /\ held.readers = {}
    /\ held' = [held EXCEPT !.writer = g]
    /\ secrets' = secrets
    /\ Moves(g, "Store.assign")

\* Store: c.secrets[loc] = cacheObject{...}
StoreAssign(g) ==
    /\ Running /\ gor[g].at = "Store.assign"
    /\ held' = held
    /\ \E v \in {"v1", "v2"} :
          Accessed(g, "Store.Unlock", CacheStore(secrets, gor[g].loc, v, now))

\* Store: the deferred c.secretsMutex.Unlock()
StoreUnlock(g) ==
    /\ Running /\ gor[g].at = "Store.Unlock"
    /\ held' = [held EXCEPT !.writer = ""]
    /\ secrets' = secrets
    /\ Moves(g, "idle")

\* Reset: c.secrets = map[string]cacheObject{}
ResetAssign(g) ==
    /\ Running /\ gor[g].at = "Reset.assign"
    /\ held' = held
    /\ Accessed(g, "idle", <<>>)

NextCache ==
    \E g \in Goroutines :
        \/ Enter(g)
        \/ GetRLock(g)
        \/ GetRead(g)
        \/ GetDelete(g)
        \/ GetRUnlock(g)
        \/ StoreLock(g)
        \/ StoreAssign(g)
        \/ StoreUnlock(g)
        \/ ResetAssign(g)

SpecCache == InitConfig /\ [][NextCache]_vars

----------------------------------------------------------------------------
(* The Kubernetes secret name of a path *)

\* the paths of at most n characters: a letter, an underscore, a slash, a hyphen
RECURSIVE Strings(_)
Strings(n) ==
    IF n = 0 THEN {<<>>}
    ELSE LET shorter == Strings(n - 1)
         IN  shorter \cup {Append(p, ch) : p \in shorter, ch \in {"a", "_", "/", "-"}}

\* strings.Replace(p, old, new, -1) for strings of one character
Replace(p, old, new) == [i \in DOMAIN p |-> IF p[i] = old THEN new ELSE p[i]]

\* pathToSecretName
pathToSecretName(p) == Replace(Replace(p, "_", "-"), "/", ".")

\* a call of pathToSecretName
Convert ==
    /\ ~conv.done
    /\ conv' = [conv EXCEPT !.done = TRUE, !.name = pathToSecretName(conv.path)]
    /\ UNCHANGED <<syncVars, contextVars, secrets, now, backend, out, held, gor>>

InitPath ==
    /\ ContextInit
    /\ SyncIdle
    /\ secrets = <<>>
    /\ now = 0
    /\ backend = [kubernetes |-> <<>>, env |-> <<>>]
    /\ out = [op |-> "", loc |-> EmptyLocation, value |-> "", err |-> FALSE,
              found |-> FALSE, called |-> FALSE, before |-> <<>>, at |-> 0]
    /\ held = [readers |-> {}, writer |-> ""]
    /\ gor = [g \in Goroutines |-> Idle]
    /\ conv \in {[path |-> p, done |-> FALSE, name |-> <<>>] : p \in Strings(MaxLen)}

NextPath == Convert

SpecPath == InitPath /\ [][NextPath]_vars

----------------------------------------------------------------------------
(* Properties *)

IsCreate(c) == c.op \in CreateOps
IsDelete(c) == c.op \in DeleteOps
IsMutation(c) == IsCreate(c) \/ IsDelete(c)

EmptyStore == NewResources

\* the place of a kind among parents and children: object types first, edges last
KindRank(k) ==
    IF k = "objectTypes" THEN 1
    ELSE IF k = "objects" THEN 2
    ELSE IF k = "edgeTypes" THEN 3
    ELSE 4

\* C1: within an insertion phase the Create calls come kind by kind, object
\* types, then objects, then edge types, then edges: no Create call of a kind
\* follows a Create call of a later kind.
C1_InsertionOrder ==
    \A i, j \in DOMAIN calls :
        (/\ i < j
         /\ calls[i].run = calls[j].run
         /\ IsCreate(calls[i])
         /\ IsCreate(calls[j]))
        => KindRank(OpKind(calls[i].op)) <= KindRank(OpKind(calls[j].op))

\* an insertion phase that created entities of all four kinds has completed
C1_Witness ==
    /\ pc = "completed"
    /\ \A op \in CreateOps : \E i \in DOMAIN calls : calls[i].op = op /\ calls[i].run = run

\* C2: within a deletion phase the delete calls come kind by kind, edges, then
\* edge types, then objects, then object types: no deletion of an entity of a
\* kind follows the deletion of an entity of a kind closer to the object types.
C2_DeletionOrder ==
    \A i, j \in DOMAIN calls :
        (/\ i < j
         /\ calls[i].run = calls[j].run
         /\ IsDelete(calls[i])
         /\ IsDelete(calls[j]))
        => KindRank(calls[i].kind) >= KindRank(calls[j].kind)

\* a deletion phase that deleted entities of all four kinds is over
C2_Witness ==
    /\ pc \in {"insertions", "insert", "completed"}
    /\ \A k \in Kinds :
          \E i \in DOMAIN calls : IsDelete(calls[i]) /\ calls[i].kind = k /\ calls[i].run = run

\* C3: a dry-run issues no Create and no Delete call, against either client,
\* whatever the change-sets and the insert-only flag.
C3_DryRunPurity ==
    dryRun => \A i \in DOMAIN calls : ~IsMutation(calls[i])

\* a dry-run has completed with non-empty deletion and insertion sets
C3_Witness ==
    /\ dryRun
    /\ pc = "completed"
    /\ NonEmpty(deleteResources)
    /\ NonEmpty(insertResources)

\* C4: an insert-only sync issues no Delete call and never computes the diff
\* of the destination against the source; started on an empty destination it
\* issues no CreateObject call before a CreateObjectType call of the same run,
\* and having completed it has created every object type and object of the source.
C4_InsertOnly ==
    insertOnly =>
        /\ \A i \in DOMAIN calls : ~IsDelete(calls[i])
        /\ \A i \in DOMAIN diffs : diffs[i].a # "dst"
        /\ dstStore0 = EmptyStore =>
              /\ \A i, j \in DOMAIN calls :
                    (/\ i < j
                     /\ calls[i].run = calls[j].run
                     /\ calls[i].op = "CreateObject")
                    => calls[j].op # "CreateObjectType"
              /\ (pc = "completed" /\ ~dryRun) =>
                    /\ \A t \in Range(srcStore.objectTypes) :
                          \E i \in DOMAIN calls :
                              calls[i].op = "CreateObjectType" /\ calls[i].ent = t
                    /\ \A o \in Range(srcStore.objects) :
                          \E i \in DOMAIN calls :
                              calls[i].op = "CreateObject" /\ calls[i].ent = o

\* an insert-only sync into an empty destination has created an object type
\* and then an object of it
C4_Witness ==
    /\ insertOnly
    /\ ~dryRun
    /\ dstStore0 = EmptyStore
    /\ pc = "completed"
    /\ \E i, j \in DOMAIN calls :
          /\ i < j
          /\ calls[i].op = "CreateObjectType"
          /\ calls[j].op = "CreateObject"
          /\ calls[j].ent.TypeID = calls[i].ent.ID

\* the diffs of the current run
InsertionsComputed == \E i \in DOMAIN diffs : diffs[i].run = run /\ diffs[i].a = "src"
DeletionsComputed == \E i \in DOMAIN diffs : diffs[i].run = run /\ diffs[i].a = "dst"

\* two lists hold the same entities: the same identifiers, with equal content
SameEntities(k, A, B) ==
    /\ IDs(A) = IDs(B)
    /\ \A a \in Range(A), b \in Range(B) : a.ID = b.ID => EqualsIgnoringID(k, a, b)

\* C5: idempotence of a full sync: a run that follows a completed run with
\* neither dry-run nor insert-only set, on the same source, computes an empty
\* deletion set and an empty insertion set for all four kinds.
C5_Idempotence ==
    (run > 1 /\ ~dryRun /\ ~insertOnly) =>
        /\ DeletionsComputed => deleteResources = NewResources
        /\ InsertionsComputed => insertResources = NewResources

\* C6: convergence: when a run with neither dry-run nor insert-only set has
\* completed, the destination holds for each kind exactly the source's
\* entities, with the source's content.
C6_Convergence ==
    (pc = "completed" /\ ~dryRun /\ ~insertOnly) =>
        \A k \in Kinds : SameEntities(k, dstStore[k], srcStore[k])

\* result is the diff of list A against list B for kind k: it holds exactly
\* the entities of A whose identifier B lacks or holds with different content,
\* each once, taken from A
IsDiffOf(k, result, A, B) ==
    /\ \A a \in Range(A) :
          a \in Range(result) <=>
              \/ \A b \in Range(B) : b.ID # a.ID
              \/ \E b \in Range(B) : b.ID = a.ID /\ ~EqualsIgnoringID(k, a, b)
    /\ \A i, j \in DOMAIN result : result[i] = result[j] => i = j
    /\ Range(result) \subseteq Range(A)

\* C7: for each kind, a computed diff of A against B holds exactly the
\* entities of A that B lacks or holds with different content, each once and
\* in A's form: the insertion set is such a diff of the source snapshot against
\* the destination snapshot, the deletion set of the destination snapshot
\* against the source snapshot.
C7_DiffExact ==
    \A k \in Kinds :
        /\ InsertionsComputed =>
              IsDiffOf(k, insertResources[k], srcResources[k], dstResources[k])
        /\ DeletionsComputed =>
              IsDiffOf(k, deleteResources[k], dstResources[k], srcResources[k])

\* both diffs are computed from snapshots in which an entity is missing on
\* one side, an entity is changed, and an entity is content-equal but not equal
C7_Witness ==
    /\ InsertionsComputed
    /\ DeletionsComputed
    /\ \E k \in Kinds : \E a \in Range(srcResources[k]) : a.ID \notin IDs(dstResources[k])
    /\ \E k \in Kinds : \E a \in Range(srcResources[k]), b \in Range(dstResources[k]) :
          a.ID = b.ID /\ ~EqualsIgnoringID(k, a, b)
    /\ \E k \in Kinds : \E a \in Range(srcResources[k]), b \in Range(dstResources[k]) :
          a.ID = b.ID /\ EqualsIgnoringID(k, a, b) /\ a # b

\* C8: once both diffs of a run are computed, an identifier is in the deletion
\* set and in the insertion set of a kind exactly when both snapshots hold it
\* with different content; the deletion set then carries the destination's
\* entity and the insertion set the source's.
C8_ChangedInBoth ==
    (InsertionsComputed /\ DeletionsComputed) =>
        \A k \in Kinds :
            \A id \in IDs(srcResources[k]) \cup IDs(dstResources[k]) :
                /\ (id \in IDs(deleteResources[k]) /\ id \in IDs(insertResources[k]))
                   <=> \E a \in Range(srcResources[k]), b \in Range(dstResources[k]) :
                          a.ID = id /\ b.ID = id /\ ~EqualsIgnoringID(k, a, b)
                /\ (id \in IDs(deleteResources[k]) /\ id \in IDs(insertResources[k]))
                   => /\ \A d \in Range(deleteResources[k]) :
                            d.ID = id => d \in Range(dstResources[k])
                      /\ \A n \in Range(insertResources[k]) :
                            n.ID = id => n \in Range(srcResources[k])

\* both diffs are computed and hold a changed object type under its two names
C8_Witness ==
    /\ InsertionsComputed
    /\ DeletionsComputed
    /\ \E d \in Range(deleteResources.objectTypes), n \in Range(insertResources.objectTypes) :
          d.ID = n.ID /\ d.TypeName = "admin" /\ n.TypeName = "user"

\* C9: a failed List call ends the run at once in the failed state: it is the
\* last remote call, no diff of that run is computed, that run issues no
\* Create or Delete call, and the destination is as that run found it.
C9_FetchFailure ==
    \A i \in DOMAIN calls :
        (calls[i].op \in ListOps /\ ~calls[i].ok) =>
            /\ i = Len(calls)
            /\ pc = "failed"
            /\ \A j \in DOMAIN diffs : diffs[j].run # calls[i].run
            /\ \A j \in DOMAIN calls : calls[j].run = calls[i].run => ~IsMutation(calls[j])
            /\ deleteResources = NewResources
            /\ insertResources = NewResources
            /\ calls[i].run = 1 => dstStore = dstStore0

\* the second page of a List call on a destination that holds entities the
\* source lacks has failed, with the source fetched in full
C9_Witness ==
    /\ pc = "failed"
    /\ calls # <<>>
    /\ calls[Len(calls)].op = "ListObjects"
    /\ calls[Len(calls)].client = "dst"
    /\ calls[Len(calls)].cursor > 0
    /\ ~calls[Len(calls)].ok
    /\ \E k \in Kinds : IDs(dstStore[k]) \ IDs(srcStore[k]) # {}

\* the destination after the successful calls of a list of calls
RECURSIVE Replay(_, _)
Replay(store, cs) ==
    IF cs = <<>> THEN store
    ELSE LET c == Head(cs)
             next == IF ~c.ok \/ ~IsMutation(c) THEN store
                     ELSE IF IsCreate(c) THEN RemoteCreate(store, OpKind(c.op), c.ent)
                     ELSE RemoteDelete(store, OpKind(c.op), c.id)
         IN  Replay(next, Tail(cs))

\* the entities of a change-set in the order of application
InsertionList(res) == res.objectTypes \o res.objects \o res.edgeTypes \o res.edges
DeletionList(res) == res.edges \o res.edgeTypes \o res.objects \o res.objectTypes

\* the identifiers targeted by the calls of run r to operations ops, in order
RECURSIVE TargetsFrom(_, _, _)
TargetsFrom(i, r, ops) ==
    IF i > Len(calls) THEN <<>>
    ELSE IF calls[i].run = r /\ calls[i].op \in ops
         THEN <<calls[i].id>> \o TargetsFrom(i + 1, r, ops)
         ELSE TargetsFrom(i + 1, r, ops)

IsPrefix(s, t) == Len(s) <= Len(t) /\ \A i \in DOMAIN s : s[i] = t[i]

ListIDs(list) == [i \in DOMAIN list |-> list[i].ID]

\* C10: a failed Create or Delete call stops the run at once: it is the last
\* remote call (no retry, no later entity, no compensating call), the calls of
\* its phase are the failed one preceded by successful calls for the entities
\* ahead of it in the change-set, and the destination holds the effect of
\* every successful call issued so far.
C10_FailFast ==
    \A i \in DOMAIN calls :
        (IsMutation(calls[i]) /\ ~calls[i].ok) =>
            /\ i = Len(calls)
            /\ pc \in {"failed", "panicked"}
            /\ \A j \in DOMAIN calls :
                  (j < i /\ calls[j].run = calls[i].run) => calls[j].ok
            /\ IF IsDelete(calls[i])
               THEN IsPrefix(TargetsFrom(1, run, DeleteOps), ListIDs(DeletionList(deleteResources)))
               ELSE IsPrefix(TargetsFrom(1, run, CreateOps), ListIDs(InsertionList(insertResources)))
            /\ dstStore = Replay(dstStore0, calls)

\* the third Create call of an insertion phase has failed after two
\* successful ones, with more entities left in the change-set
C10_Witness ==
    /\ pc = "failed"
    /\ Len(TargetsFrom(1, run, CreateOps)) = 3
    /\ Len(InsertionList(insertResources)) > 3
    /\ ~calls[Len(calls)].ok
    /\ IsCreate(calls[Len(calls)])
    /\ dstStore # dstStore0

\* the run has ended without success: by a returned error, or by a nil
\* dereference that aborts the process
Stopped == pc \in {"failed", "panicked"}

\* C11: after a failed delete call the run has ended without success and its
\* insertion phase is never entered: that run computes no insertion diff and
\* issues no Create call.
C11_NoInsertAfterFailedDelete ==
    \A i \in DOMAIN calls :
        (IsDelete(calls[i]) /\ ~calls[i].ok) =>
            /\ Stopped
            /\ \A j \in DOMAIN calls : calls[j].run = calls[i].run => ~IsCreate(calls[j])
            /\ \A j \in DOMAIN diffs :
                  diffs[j].run = calls[i].run => diffs[j].a # "src"

\* a delete call has failed after a successful one, in a run whose snapshots
\* call for insertions
C11_Witness ==
    /\ pc = "failed"
    /\ Len(calls) > 1
    /\ IsDelete(calls[Len(calls)])
    /\ ~calls[Len(calls)].ok
    /\ IsDelete(calls[Len(calls) - 1])
    /\ NonEmpty(InsertionDiff(srcResources, dstResources))

\* C12: an entity that both snapshots hold under the same identifier with
\* equal content is the target of no Create or Delete call of the run, and is
\* in the destination as the destination snapshot holds it.
C12_UnchangedUntouched ==
    \A k \in Kinds :
        \A a \in Range(srcResources[k]), b \in Range(dstResources[k]) :
            (a.ID = b.ID /\ EqualsIgnoringID(k, a, b)) =>
                /\ \A i \in DOMAIN calls :
                      (calls[i].run = run /\ IsMutation(calls[i])) => calls[i].id # a.ID
                /\ b \in Range(dstStore[k])

\* a run that deleted and created entities has completed, and both snapshots
\* hold an object type with equal content
C12_Witness ==
    /\ pc = "completed"
    /\ \E i \in DOMAIN calls : calls[i].run = run /\ IsDelete(calls[i])
    /\ \E i \in DOMAIN calls : calls[i].run = run /\ IsCreate(calls[i])
    /\ \E a \in Range(srcResources.objectTypes), b \in Range(dstResources.objectTypes) :
          a.ID = b.ID /\ EqualsIgnoringID("objectTypes", a, b)

\* the entities of a store that depend on the object type t: its objects and
\* edge types, and the edges of those
DependentsOf(store, t) ==
    LET objs == {o \in Range(store.objects) : o.TypeID = t}
        ets == {et \in Range(store.edgeTypes) :
                   et.SourceObjectTypeID = t \/ et.TargetObjectTypeID = t}
        es == {e \in Range(store.edges) :
                   \/ e.EdgeTypeID \in {et.ID : et \in ets}
                   \/ e.SourceObjectID \in {o.ID : o \in objs}
                   \/ e.TargetObjectID \in {o.ID : o \in objs}}
    IN  [objects |-> objs, edgeTypes |-> ets, edges |-> es]

\* the position of the successful delete call of the run for entity id of
\* kind k, 0 if there is none
DeletedAt(k, id) ==
    IF \E i \in DOMAIN calls :
          calls[i].run = run /\ IsDelete(calls[i]) /\ calls[i].ok
          /\ calls[i].kind = k /\ calls[i].id = id
    THEN CHOOSE i \in DOMAIN calls :
          calls[i].run = run /\ IsDelete(calls[i]) /\ calls[i].ok
          /\ calls[i].kind = k /\ calls[i].id = id
    ELSE 0

\* C13: when a run with neither dry-run nor insert-only set has completed on
\* a consistent source, every object type the destination snapshot holds and
\* the source snapshot lacks was deleted after each of its dependents in the
\* destination snapshot, and is no longer in the destination.
C13_OrphanTypeDeleted ==
    (pc = "completed" /\ ~dryRun /\ ~insertOnly /\ Consistent(srcResources)) =>
        \A t \in Range(dstResources.objectTypes) :
            t.ID \notin IDs(srcResources.objectTypes) =>
                /\ DeletedAt("objectTypes", t.ID) > 0
                /\ \A k \in {"objects", "edgeTypes", "edges"} :
                      \A d \in DependentsOf(dstResources, t.ID)[k] :
                          /\ DeletedAt(k, d.ID) > 0
                          /\ DeletedAt(k, d.ID) < DeletedAt("objectTypes", t.ID)
                /\ t.ID \notin IDs(dstStore.objectTypes)

\* some entity of the store refers to entity id of kind k
Referenced(store, k, id) ==
    IF k = "objectTypes"
    THEN \/ \E o \in Range(store.objects) : o.TypeID = id
         \/ \E et \in Range(store.edgeTypes) :
               et.SourceObjectTypeID = id \/ et.TargetObjectTypeID = id
    ELSE IF k = "objects"
    THEN \E e \in Range(store.edges) : e.SourceObjectID = id \/ e.TargetObjectID = id
    ELSE IF k = "edgeTypes"
    THEN \E e \in Range(store.edges) : e.EdgeTypeID = id
    ELSE FALSE

\* the store holds every entity that entity ent of kind k refers to
ReferencesExist(store, k, ent) ==
    IF k = "objects" THEN ent.TypeID \in IDs(store.objectTypes)
    ELSE IF k = "edgeTypes"
    THEN /\ ent.SourceObjectTypeID \in IDs(store.objectTypes)
         /\ ent.TargetObjectTypeID \in IDs(store.objectTypes)
    ELSE IF k = "edges"
    THEN /\ ent.EdgeTypeID \in IDs(store.edgeTypes)
         /\ ent.SourceObjectID \in IDs(store.objects)
         /\ ent.TargetObjectID \in IDs(store.objects)
    ELSE TRUE

\* the step issues a remote call
CallIssued == Len(calls') = Len(calls) + 1

NewCall == calls'[Len(calls')]

\* C14: with consistent snapshots, at the moment of a delete call nothing in
\* the destination refers to the entity being deleted, and at the moment of
\* a Create call the destination holds everything the created entity refers to.
C14_LatticeRespected ==
    [][(CallIssued /\ Consistent(srcResources) /\ Consistent(dstResources)) =>
          /\ IsDelete(NewCall) => ~Referenced(dstStore, OpKind(NewCall.op), NewCall.id)
          /\ IsCreate(NewCall) => ReferencesExist(dstStore, NewCall.kind, NewCall.ent)]_vars

\* the remote operation that deletes an entity of kind k
OwnDeleteOp(k) ==
    IF k = "edges" THEN "DeleteEdge"
    ELSE IF k = "edgeTypes" THEN "DeleteEdgeType"
    ELSE IF k = "objects" THEN "DeleteObject"
    ELSE "DeleteObjectType"

\* C15: every entity of a deletion change-set is removed through the remote
\* operation of its own kind; DeleteObject is never called with the
\* identifier of an object type.
C15_OwnDeleteOperation ==
    \A i \in DOMAIN calls :
        IsDelete(calls[i]) => calls[i].op = OwnDeleteOp(calls[i].kind)

\* C16: at the moment of a Create call the destination holds no entity of
\* that kind under the identifier being created.
C16_CreateOnlyNew ==
    [][(CallIssued /\ IsCreate(NewCall)) =>
          NewCall.id \notin IDs(dstStore[NewCall.kind])]_vars

\* C17: every Create call passes an entity of the source under the source's
\* identifier with the source's fields, and every entity of the destination
\* is one the destination held before the first run or one the source holds.
C17_IdentifierPreserved ==
    /\ \A i \in DOMAIN calls :
          IsCreate(calls[i]) => calls[i].ent \in Range(srcStore[calls[i].kind])
    /\ \A k \in Kinds :
          Range(dstStore[k]) \subseteq Range(dstStore0[k]) \cup Range(srcStore[k])

\* entities of all four kinds were created in an empty destination, which
\* now holds them as the source does
C17_Witness ==
    /\ pc = "completed"
    /\ dstStore0 = EmptyStore
    /\ \A k \in Kinds : dstStore[k] # <<>> /\ Range(dstStore[k]) = Range(srcStore[k])
    /\ \A k \in Kinds : \E i \in DOMAIN calls : IsCreate(calls[i]) /\ calls[i].kind = k

PagedOps == {"ListObjects", "ListEdges"}

\* the List calls of operation op the current run made through client t, in
\* the order they were issued
PageCalls(t, op) ==
    SelectSeq(calls, LAMBDA c : c.run = run /\ c.client = t /\ c.op = op)

\* the pages the remote returned to the first n of the calls ps, one after
\* the other
RECURSIVE ConcatPages(_, _, _)
ConcatPages(list, ps, n) ==
    IF n = 0 THEN <<>>
    ELSE ConcatPages(list, ps, n - 1) \o ListPage(list, ps[n].cursor).Data

\* the current run has not changed the destination yet
NoMutationYet == \A i \in DOMAIN calls : calls[i].run = run => ~IsMutation(calls[i])

\* the snapshot of tenant t
Snapshot(t) == IF t = "src" THEN srcResources ELSE dstResources

\* the fetch of kind k from tenant t has returned its list
FetchDone(t, k) ==
    \/ pc \notin {"validate", "clientSrc", "clientDst", "fetchSrc", "fetchDst", "failed"}
    \/ pc \in {"clientDst", "fetchDst"} /\ t = "src"
    \/ pc = "fetchSrc" /\ t = "src" /\ KindRank(k) < step
    \/ pc = "fetchDst" /\ t = "dst" /\ KindRank(k) < step

\* C19: the List calls of a paginated fetch start at the begin cursor, each
\* later call follows a successful response with the continuation flag set
\* and carries that response's next cursor, no call follows a response whose
\* flag is false, and the snapshot stored when the fetch returns is the
\* concatenation of the pages received, which is the remote list itself.
C19_PaginatedFetch ==
    \A t \in {"src", "dst"} : \A op \in PagedOps :
        (t = "dst" => NoMutationYet) =>
            LET list == Store(t)[OpKind(op)]
                ps == PageCalls(t, op)
            IN  /\ Len(ps) > 0 => ps[1].cursor = 0
                /\ \A i \in 1..(Len(ps) - 1) :
                      /\ ps[i].ok
                      /\ ListPage(list, ps[i].cursor).HasNext
                      /\ ps[i + 1].cursor = ListPage(list, ps[i].cursor).Next
                /\ FetchDone(t, OpKind(op)) =>
                      /\ Len(ps) > 0
                      /\ ps[Len(ps)].ok
                      /\ ~ListPage(list, ps[Len(ps)].cursor).HasNext
                      /\ Snapshot(t)[OpKind(op)] = ConcatPages(list, ps, Len(ps))
                      /\ ConcatPages(list, ps, Len(ps)) = list

\* the objects of the source were fetched in more than one page
C19_Witness ==
    /\ FetchDone("src", "objects")
    /\ Len(PageCalls("src", "ListObjects")) > 1
    /\ Len(srcResources.objects) > 1

\* the context the invocation names for tenant t, empty when it names none
\* or the configuration file does not hold it
NamedContext(t) ==
    IF /\ args[ContextField(t)] # ""
       /\ cfgFile.ok
       /\ args[ContextField(t)] \in DOMAIN cfgFile.Contexts
    THEN cfgFile.Contexts[args[ContextField(t)]]
    ELSE Context("", "", "")

\* the invocation gives no URL, no client id or no client secret for tenant
\* t: neither by flag or environment variable nor by the context it names
MissingInput(t) ==
    \/ args[URLField(t)] = "" /\ NamedContext(t).URL = ""
    \/ args[ClientIdField(t)] = "" /\ NamedContext(t).ClientID = ""
    \/ environ[args[SecretVarField(t)]] = "" /\ NamedContext(t).ClientSecret = ""

\* the current run has issued no remote call
NoCallYet == \A i \in DOMAIN calls : calls[i].run # run

ValidationFailed == pc = "failed" /\ ~validated

\* C18: an invocation that lacks the URL, the client id or the client secret
\* of a tenant fails validation; while validation has not passed no client
\* exists and no remote call was issued; and a failed validation leaves the
\* command's fields and the environment as the invocation found them.
C18_ValidationFirst ==
    /\ (pc # "validate" /\ \E t \in {"src", "dst"} : MissingInput(t)) => ValidationFailed
    /\ ~validated => clients = {} /\ NoCallYet
    /\ ValidationFailed => cmd = args /\ env = environ

Terminal == {"completed", "failed", "panicked"}

\* the place of a position of sync in the fixed order of the phases
PhaseRank(p) ==
    IF p = "validate" THEN 0
    ELSE IF p \in {"clientSrc", "fetchSrc"} THEN 1
    ELSE IF p \in {"clientDst", "fetchDst"} THEN 2
    ELSE IF p = "deletions" THEN 3
    ELSE IF p = "delete" THEN 4
    ELSE IF p = "insertions" THEN 5
    ELSE IF p = "insert" THEN 6
    ELSE 7

\* the current run called List through the client of tenant t
ListedFrom(t) ==
    \E i \in DOMAIN calls :
        calls[i].run = run /\ calls[i].client = t /\ calls[i].op \in ListOps

\* one step of an invocation keeps to the order of the phases
PhaseStep ==
    /\ run' = run => PhaseRank(pc') >= PhaseRank(pc)
    /\ insertOnly => pc' \notin {"deletions", "delete"}
    /\ dryRun => pc' \notin {"delete", "insert"}
    /\ pc \in Terminal => calls' = calls /\ (run' = run => pc' = pc)

\* a completed invocation went through every phase its flags ask for
PhasesPassed ==
    pc = "completed" =>
        /\ validated
        /\ clients = {"src", "dst"}
        /\ ListedFrom("src") /\ ListedFrom("dst")
        /\ (DeletionsComputed <=> ~insertOnly)
        /\ InsertionsComputed

\* sync runs to its end: every remote call returns and nothing else blocks
FairSpec == Spec /\ WF_vars(Next)

\* C20: an invocation moves through validation, source fetch, destination
\* fetch, deletion diff, deletion apply, insertion diff and insertion apply
\* in this order and never back, skips the deletion phases under insert-only
\* and both apply phases under dry-run, has been through every phase its
\* flags ask for when it completes, reaches an end (completed, or failed,
\* the abort on a nil Alias counted as failed), and issues no call from
\* there.
C20_RunOnce ==
    /\ [][PhaseStep]_vars
    /\ [](PhasesPassed)
    /\ (pc \notin Terminal) ~> (pc \in Terminal)

\* an invocation that applied deletions and insertions has completed
C20_Witness ==
    /\ pc = "completed"
    /\ \E i \in DOMAIN calls : calls[i].run = run /\ IsDelete(calls[i])
    /\ \E i \in DOMAIN calls : calls[i].run = run /\ IsCreate(calls[i])

\* what of snapshot A snapshot B lacks or holds with different content, kind
\* by kind and in A's order
ChangeSet(A, B) ==
    [k \in Kinds |->
        SelectSeq(A[k], LAMBDA a :
            \A b \in Range(B[k]) : b.ID = a.ID => ~EqualsIgnoringID(k, a, b))]

\* C21: the change-sets a run computes are determined by the two snapshots
\* alone, with dry-run as without it; a run that is past the deletion phase
\* has computed the deletion set unless insert-only is set, a run that is
\* past the insertion diff has computed the insertion set whatever the
\* flags; and a dry-run that has fetched both snapshots does not fail: with
\* the insertion set computed it has completed, empty change-sets or not.
C21_DryRunComputesSame ==
    /\ DeletionsComputed => deleteResources = ChangeSet(dstResources, srcResources)
    /\ InsertionsComputed => insertResources = ChangeSet(srcResources, dstResources)
    /\ pc \in {"delete", "insertions", "insert", "completed"} =>
          (DeletionsComputed <=> ~insertOnly)
    /\ pc \in {"insert", "completed"} => InsertionsComputed
    /\ (dryRun /\ (DeletionsComputed \/ InsertionsComputed)) => pc \notin {"failed", "panicked"}
    /\ (dryRun /\ InsertionsComputed) => pc = "completed"

\* a dry-run without insert-only has completed with objects to delete and
\* objects to insert
C21_Witness ==
    /\ dryRun
    /\ ~insertOnly
    /\ pc = "completed"
    /\ deleteResources.objects # <<>>
    /\ insertResources.objects # <<>>
    /\ dstStore = dstStore0

\* RunE returned nil: exit code 0
Success == pc = "completed"

\* RunE returned an error or the process aborted: non-zero exit
Failure == pc \in {"failed", "panicked"}

NoFailedCall == \A i \in DOMAIN calls : calls[i].run = run => calls[i].ok

\* the deletion phase is through, as far as the flags ask for it
DeletionsDone ==
    \/ insertOnly
    \/ /\ DeletionsComputed
       /\ \/ dryRun
          \/ TargetsFrom(1, run, DeleteOps) = ListIDs(DeletionList(deleteResources))

\* the insertion phase is through, as far as the flags ask for it
InsertionsDone ==
    /\ InsertionsComputed
    /\ \/ dryRun
       \/ TargetsFrom(1, run, CreateOps) = ListIDs(InsertionList(insertResources))

\* C22: a run has ended in success exactly when validation passed, both
\* clients were created, no remote call of the run failed and the deletion
\* and insertion phases are through as far as the flags ask for them; and a
\* run does not go on past a failure: validation that did not pass, a
\* client that was not created or a failed remote call leave the run in
\* failure (the abort on a nil Alias counted as failure).
C22_SuccessIffAllPassed ==
    /\ Success <=> /\ validated
                   /\ clients = {"src", "dst"}
                   /\ NoFailedCall
                   /\ DeletionsDone
                   /\ InsertionsDone
    /\ (pc # "validate" /\ ~validated) => Failure
    /\ (pc \notin {"validate", "clientSrc"} /\ "src" \notin clients) => Failure
    /\ (pc \notin {"validate", "clientSrc", "fetchSrc", "clientDst"} /\ "dst" \notin clients)
          => Failure
    /\ ~NoFailedCall => Failure

\* the source was fetched, and the run failed on creating the destination's
\* client
C22_Witness ==
    /\ pc = "failed"
    /\ validated
    /\ clients = {"src"}
    /\ NoFailedCall
    /\ ListedFrom("src")
    /\ srcResources = srcStore

NoMutationInRun == \A i \in DOMAIN calls : calls[i].run = run => ~IsMutation(calls[i])

\* C23: the diff of a fetched snapshot against itself is empty for every
\* kind; a run whose two snapshots are identical computes an empty deletion
\* set and an empty insertion set and issues no Create or Delete call.
C23_NoOpOnEqualSnapshots ==
    /\ \A k \in Kinds :
          /\ DiffKind(k, srcResources[k], srcResources[k]) = <<>>
          /\ DiffKind(k, dstResources[k], dstResources[k]) = <<>>
    /\ srcResources = dstResources =>
          /\ DeletionsComputed => deleteResources = NewResources
          /\ InsertionsComputed => insertResources = NewResources
          /\ NoMutationInRun

\* a second run has completed on two identical snapshots that hold entities
\* of all four kinds
C23_Witness ==
    /\ run = 2
    /\ pc = "completed"
    /\ ~dryRun
    /\ ~insertOnly
    /\ srcResources = dstResources
    /\ \A k \in Kinds : srcResources[k] # <<>>

\* the entities of kind k that snapshot A holds under identifiers B lacks
OnlyIn(k, A, B) == {a \in Range(A[k]) : a.ID \notin IDs(B[k])}

\* result is a diff taken from A against B: it holds entities of A only,
\* among them every entity B lacks, and none that only B holds
TakenFrom(result, A, B) ==
    \A k \in Kinds :
        /\ Range(result[k]) \subseteq Range(A[k])
        /\ OnlyIn(k, A, B) \subseteq Range(result[k])
        /\ OnlyIn(k, B, A) \cap Range(result[k]) = {}

\* C24: a diff holds entities of its first argument only: the insertion set
\* is taken from the source snapshot and the deletion set from the
\* destination snapshot, an entity only one snapshot holds is in the diff
\* taken from that snapshot and not in the diff taken from the other, and
\* the same holds of the diffs of the two snapshots in either direction.
C24_DiffDirectional ==
    /\ InsertionsComputed => TakenFrom(insertResources, srcResources, dstResources)
    /\ DeletionsComputed => TakenFrom(deleteResources, dstResources, srcResources)
    /\ TakenFrom(Diff(NewResources, srcResources, dstResources), srcResources, dstResources)
    /\ TakenFrom(Diff(NewResources, dstResources, srcResources), dstResources, srcResources)

\* the two diffs of a run differ: an entity only the source holds is in the
\* insertion set alone, an entity only the destination holds in the
\* deletion set alone
C24_Witness ==
    /\ InsertionsComputed
    /\ DeletionsComputed
    /\ insertResources # deleteResources
    /\ \E k \in Kinds : \E a \in OnlyIn(k, srcResources, dstResources) :
          a \in Range(insertResources[k]) /\ a \notin Range(deleteResources[k])
    /\ \E k \in Kinds : \E b \in OnlyIn(k, dstResources, srcResources) :
          b \in Range(deleteResources[k]) /\ b \notin Range(insertResources[k])

\* the current context is unset or names a context of the map
CurrentExists(c) == c.CurrentContext = "" \/ c.CurrentContext \in DOMAIN c.Contexts

\* C25: after any sequence of SetContext, UseContext and DeleteContext the
\* current context is unset or names a context of the map; DeleteContext of
\* the current context unsets it; and UseContext or DeleteContext of a name
\* the map lacks returns an error and leaves the configuration as it was,
\* and returns no error otherwise.
C25_CurrentContextExists ==
    /\ CurrentExists(conf)
    /\ (lastOp.op = "DeleteContext" /\ lastOp.before.CurrentContext = lastOp.name)
          => conf.CurrentContext = ""
    /\ lastOp.op \in {"UseContext", "DeleteContext"} =>
          /\ lastOp.err <=> lastOp.name \notin DOMAIN lastOp.before.Contexts
          /\ lastOp.err => conf = lastOp.before

\* the current context was deleted while another context is left
C25_Witness ==
    /\ lastOp.op = "DeleteContext"
    /\ ~lastOp.err
    /\ lastOp.before.CurrentContext = lastOp.name
    /\ conf.CurrentContext = ""
    /\ DOMAIN conf.Contexts # {}

\* C26: a context set command that succeeds makes its context the current
\* one when no context existed before it, and leaves the current context
\* as it was when one existed.
C26_FirstContextCurrent ==
    (lastOp.op = "set" /\ ~lastOp.err) =>
        IF DOMAIN lastOp.before.Contexts = {}
        THEN conf.CurrentContext = lastOp.name
        ELSE conf.CurrentContext = lastOp.before.CurrentContext

----------------------------------------------------------------------------
(* C27, C28: String.Resolve and the package cache *)

\* the last operation on a secret was a Resolve that returned no error
ResolvedOk == out.op = "Resolve" /\ ~out.err

\* the value the provider named by a prefixed location holds for it
ProviderHolds(loc) ==
    IF loc.prefix = PrefixKubernetes THEN backend.kubernetes[loc.path]
    ELSE backend.env[loc.path]

\* a Resolve that called the provider returned the provider's value, and
\* every successful Resolve of a prefixed location leaves the returned value in the
\* cache under that location
ResolveStores ==
    (ResolvedOk /\ out.loc.prefix \in AllPrefixes) =>
        /\ out.called => out.value = ProviderHolds(out.loc)
        /\ out.loc \in DOMAIN secrets
        /\ secrets[out.loc].Secret = out.value

\* Resolve of the empty location returns "" and no error, and neither the
\* provider nor the cache is touched
ResolveEmpty ==
    (out.op = "Resolve" /\ out.loc = EmptyLocation) =>
        /\ out.value = "" /\ ~out.err
        /\ ~out.called /\ ~out.found
        /\ secrets = out.before

\* a cache lookup or a second Resolve of the same location that follows a
\* successful Resolve at once finds the value, without calling the provider
FollowedAtOnce ==
    (/\ ResolvedOk /\ out.loc.prefix \in AllPrefixes
     /\ out.at = now /\ now' = now
     /\ out'.op \in {"Get", "Resolve"}
     /\ out'.loc = out.loc)
    => (out'.found /\ out'.value = out.value /\ ~out'.called /\ ~out'.err)

\* C27: String.Resolve returns the provider's value for a prefixed location
\* and stores it in the package cache under that location, so that a cache
\* lookup of the same location that follows at once finds that value and a
\* second Resolve returns it without calling the provider; Resolve of the
\* empty location returns the empty string without touching provider or
\* cache.
C27_ResolveCaches == [](ResolveStores /\ ResolveEmpty) /\ [][FollowedAtOnce]_vars

\* a second Resolve of the kubernetes location returned the cached value
\* while the provider holds another one
C27_Witness ==
    /\ ResolvedOk /\ out.found /\ ~out.called
    /\ out.loc = Loc(PrefixKubernetes, "db")
    /\ out.before = secrets
    /\ "db" \in DOMAIN backend.kubernetes
    /\ backend.kubernetes["db"] # out.value

\* C28: String.Resolve of a location that carries no secret-store prefix
\* returns that string unchanged and no error.
C28_UnprefixedUnchanged ==
    (/\ out.op = "Resolve"
     /\ out.loc # EmptyLocation
     /\ out.loc.prefix \notin AllPrefixes)
    => (~out.err /\ out.value = out.loc.path)

----------------------------------------------------------------------------
(* C29, C30: the calls of the apply phases *)

\* C29: no Create or Delete call is ever issued through the source client:
\* the source tenant is only read (List calls) and never changes, and every
\* mutation of a run goes to the destination client.
C29_SourceReadOnly ==
    /\ [](\A i \in DOMAIN calls :
            /\ calls[i].client = "src" => calls[i].op \in ListOps
            /\ IsMutation(calls[i]) => calls[i].client = "dst")
    /\ [][srcStore' = srcStore]_vars

\* a run that deleted and created in the destination after listing the source
C29_Witness ==
    /\ pc = "completed"
    /\ \E i, j, l \in DOMAIN calls :
          /\ calls[i].run = run /\ calls[i].client = "src" /\ calls[i].op \in ListOps
          /\ calls[j].run = run /\ IsDelete(calls[j]) /\ calls[j].ok
          /\ calls[l].run = run /\ IsCreate(calls[l]) /\ calls[l].ok
    /\ dstStore # dstStore0

\* the calls of run r of the given operations for entity id of kind k
CallsFor(r, ops, k, id) ==
    { i \in DOMAIN calls :
        /\ calls[i].run = r /\ calls[i].op \in ops
        /\ calls[i].kind = k /\ calls[i].id = id }

\* every entity of the change-set res got exactly one call of ops in this run
EachOnce(res, ops) ==
    \A k \in Kinds : \A n \in DOMAIN res[k] :
        Cardinality(CallsFor(run, ops, k, res[k][n].ID)) = 1

\* the deletion phase of this run applied its change-set to the end
DeletionsApplied ==
    /\ pc \in {"insertions", "insert", "completed"}
    /\ ~dryRun /\ DeletionsComputed

\* the insertion phase of this run applied its change-set to the end
InsertionsApplied == pc = "completed" /\ ~dryRun /\ InsertionsComputed

----------------------------------------------------------------------------
(* C31: Objects without an Alias *)

\* C31: applying a change-set that holds an Object whose Alias is absent does
\* not abort the run abnormally: the run never ends in the abort of a nil
\* dereference, in insert as in delete and in every verbosity mode.
C31_NilAliasApplied == pc # "panicked"

----------------------------------------------------------------------------
(* C32: the snapshots after the fetches *)

\* both snapshots of the current run are taken
PostFetch == pc \in {"deletions", "delete", "insertions", "insert", "completed"}

\* no step of a run past its fetches changes one of the two snapshots
SnapshotsKept ==
    (PostFetch /\ run' = run) =>
        (srcResources' = srcResources /\ dstResources' = dstResources)

\* no List call of a run follows a Create or Delete call of that run
NoRefetch ==
    \A i, j \in DOMAIN calls :
        (i < j /\ calls[i].run = calls[j].run /\ IsMutation(calls[i]))
        => calls[j].op \notin ListOps

\* the insertion set of the current run is the difference of the source
\* snapshot from the destination snapshot as it was fetched
InsertionsFromSnapshot ==
    (InsertionsComputed /\ pc \in {"insert", "completed", "failed", "panicked"})
    => insertResources = ChangeSet(srcResources, dstResources)

\* C32: snapshots are read-only for the whole run: neither a Diff nor an
\* apply phase changes the source or the destination snapshot, the
\* destination is not fetched again after the second phase, and the
\* insertion set is computed against the destination snapshot taken before
\* the deletions were applied.
C32_SnapshotsReadOnly ==
    /\ [][SnapshotsKept]_vars
    /\ [](NoRefetch /\ InsertionsFromSnapshot)

\* a completed run whose deletions changed the destination before the
\* insertion set was computed: an entity of the destination snapshot was
\* deleted and is in the insertion set
C32_Witness ==
    /\ pc = "completed" /\ InsertionsComputed /\ DeletionsComputed
    /\ \E i \in DOMAIN calls : calls[i].run = run /\ IsDelete(calls[i]) /\ calls[i].ok
    /\ \E k \in Kinds : \E n \in DOMAIN insertResources[k] :
          /\ insertResources[k][n].ID \in IDs(dstResources[k])
          /\ CallsFor(run, DeleteOps, k, insertResources[k][n].ID) # {}

----------------------------------------------------------------------------
(* C33: the order of the calls within a kind *)

\* the entities of list whose identifier is among ids, in the order of list
Restricted(list, ids) == SelectSeq(list, LAMBDA a : a.ID \in ids)

\* sub holds entities of list in the relative order they have in list
KeepsOrder(sub, list) == sub = Restricted(list, IDs(sub))

\* the identifiers targeted by the calls of run r of ops for kind k, in order
RECURSIVE KindTargetsFrom(_, _, _, _)
KindTargetsFrom(i, r, ops, k) ==
    IF i > Len(calls) THEN <<>>
    ELSE IF calls[i].run = r /\ calls[i].op \in ops /\ calls[i].kind = k
         THEN <<calls[i].id>> \o KindTargetsFrom(i + 1, r, ops, k)
         ELSE KindTargetsFrom(i + 1, r, ops, k)

\* C33: within one kind the calls of an apply phase follow snapshot
\* iteration order: each change-set list keeps the relative order its
\* entities have in the first argument of Diff, and the calls of a phase for
\* a kind target the entities of the change-set list in the order of that list.
C33_SnapshotOrder ==
    \A k \in Kinds :
        /\ DeletionsComputed =>
              /\ KeepsOrder(deleteResources[k], dstResources[k])
              /\ IsPrefix(KindTargetsFrom(1, run, DeleteOps, k), ListIDs(deleteResources[k]))
        /\ InsertionsComputed =>
              /\ KeepsOrder(insertResources[k], srcResources[k])
              /\ IsPrefix(KindTargetsFrom(1, run, CreateOps, k), ListIDs(insertResources[k]))

\* a completed run that created two entities of one kind, while a third
\* entity of the source snapshot was left out of the change-set
C33_Witness ==
    /\ pc = "completed"
    /\ \E k \in Kinds :
          /\ Len(KindTargetsFrom(1, run, CreateOps, k)) = 2
    /\ \E k \in Kinds :
          /\ Len(insertResources[k]) = 1
          /\ Len(srcResources[k]) = 2
          /\ insertResources[k][1] = srcResources[k][2]
          /\ Len(KindTargetsFrom(1, run, CreateOps, k)) = 1

----------------------------------------------------------------------------
(* C34: a failed fetch of the source *)

\* the List calls run r made through client t, as indices of calls
ListCalls(t, r) ==
    { i \in DOMAIN calls :
        calls[i].run = r /\ calls[i].client = t /\ calls[i].op \in ListOps }

\* the place of a kind in a fetch: ObjectTypes, Objects, EdgeTypes, Edges
ReadRank(k) ==
    IF k = "objectTypes" THEN 1
    ELSE IF k = "objects" THEN 2
    ELSE IF k = "edgeTypes" THEN 3
    ELSE 4

\* the List calls of a tenant in a run read the kinds in order, leave no kind
\* out, and end at the first failed call
ReadInOrder(t, r) ==
    \A i \in ListCalls(t, r) :
        /\ \A j \in ListCalls(t, r) :
              i < j => /\ ReadRank(calls[i].kind) <= ReadRank(calls[j].kind)
                       /\ calls[i].ok
        /\ \A n \in 1..(ReadRank(calls[i].kind) - 1) :
              \E j \in ListCalls(t, r) :
                  j < i /\ ReadRank(calls[j].kind) = n /\ calls[j].ok

\* a List call of run r through the source client failed
SourceFetchFailed(r) == \E i \in ListCalls("src", r) : ~calls[i].ok

\* C34: if fetching the source snapshot fails, the run fails without
\* contacting the destination: the destination client is not created and no
\* List, Create or Delete call goes to it; the fetch of a tenant reads
\* ObjectTypes, Objects, EdgeTypes, Edges in that order and stops at the
\* first kind that fails.
C34_SourceFetchFatal ==
    /\ \A r \in 1..run : \A t \in {"src", "dst"} : ReadInOrder(t, r)
    /\ \A r \in 1..run :
          SourceFetchFailed(r) =>
              \A i \in DOMAIN calls : calls[i].run = r => calls[i].client = "src"
    /\ SourceFetchFailed(run) => (pc = "failed" /\ "dst" \notin clients)

\* the fetch of the source failed at the edge types, after the object types
\* and the objects were read
C34_Witness ==
    /\ pc = "failed"
    /\ \E i \in ListCalls("src", run) :
          /\ ~calls[i].ok /\ calls[i].kind = "edgeTypes"
          /\ \E j \in ListCalls("src", run) : j < i /\ calls[j].kind = "objects"
    /\ dstStore # NewResources

----------------------------------------------------------------------------
(* C35: a competing writer *)

\* the calls the flags and the two snapshots ask of the deletion phase
PlannedDeletes ==
    IF insertOnly \/ dryRun THEN <<>>
    ELSE ListIDs(DeletionList(ChangeSet(dstResources, srcResources)))

\* the calls the flags and the two snapshots ask of the insertion phase
PlannedCreates ==
    IF dryRun THEN <<>>
    ELSE ListIDs(InsertionList(ChangeSet(srcResources, dstResources)))

\* the Create call i of the current run carries an entity of the source snapshot
FromSourceSnapshot(i) ==
    (calls[i].run = run /\ IsCreate(calls[i])) =>
        calls[i].ent \in Range(srcResources[calls[i].kind])

\* C35: the sequence of Create and Delete calls a run issues is determined by
\* the two snapshots fetched in phases 1 and 2 and by the flags only: whatever
\* a competing writer does to the destination after the destination fetch,
\* the calls issued so far are the first calls of that sequence, all of it
\* once the run has completed, and the run completes all the same.
C35_CallsFromSnapshots ==
    /\ PostFetch =>
          /\ IsPrefix(TargetsFrom(1, run, DeleteOps), PlannedDeletes)
          /\ IsPrefix(TargetsFrom(1, run, CreateOps), PlannedCreates)
          /\ \A i \in DOMAIN calls : FromSourceSnapshot(i)
    /\ pc \in {"insertions", "insert", "completed"} =>
          TargetsFrom(1, run, DeleteOps) = PlannedDeletes
    /\ pc = "completed" => TargetsFrom(1, run, CreateOps) = PlannedCreates

\* a full run that completed with every call successful while the other
\* writer created an object type the source does not hold: the destination
\* differs from the source
C35_Witness ==
    /\ pc = "completed" /\ run = 1
    /\ ~dryRun /\ ~insertOnly
    /\ writes > 0
    /\ NoFailedCall
    /\ PlannedCreates # <<>>
    /\ "T3" \in IDs(dstStore.objectTypes)
    /\ ~SameEntities("objectTypes", dstStore.objectTypes, srcStore.objectTypes)

----------------------------------------------------------------------------
(* C36: the mutex of the cache *)

\* C36: every mutation of the map of the cache (the assignment in Store, the
\* delete of an expired or missing entry in Get, the assignment in Reset) is
\* made by the goroutine that holds the write lock, so no goroutine changes
\* the map while another one changes or reads it.
C36_WriteLockHeld ==
    \A g \in Goroutines :
        /\ gor[g].at \in WritePoints => held.writer = g
        /\ ~Races(g)
        /\ gor[g].at # "fatal"

----------------------------------------------------------------------------
(* C37: Delete and the cache *)

\* the last operation was on a kubernetes location
OnKubernetes == out.loc.prefix = PrefixKubernetes

\* C37: after String.Delete has removed a secret from its provider, a later
\* Resolve of the same location does not return the deleted secret's value
\* from the cache: a successful Delete leaves no live cache entry for the
\* location, and no Resolve finds in the cache the value of a secret the
\* provider no longer holds.
C37_DeleteInvalidates ==
    /\ (out.op = "Delete" /\ ~out.err /\ OnKubernetes)
          => ~CacheGet(secrets, out.loc, now).found
    /\ (out.op = "Resolve" /\ OnKubernetes
           /\ out.loc.path \notin DOMAIN backend.kubernetes)
          => ~out.found

----------------------------------------------------------------------------
(* C38: pathToSecretName *)

\* C38: pathToSecretName turns a secret path into a Kubernetes secret name by
\* replacing every '/' with '.' and leaving every other character,
\* underscores included, as it is.
C38_SlashesOnly ==
    conv.done =>
        /\ Len(conv.name) = Len(conv.path)
        /\ \A i \in DOMAIN conv.path :
              conv.name[i] = IF conv.path[i] = "/" THEN "." ELSE conv.path[i]

====
